---- MODULE Spec2Model ----
(***************************************************************************)
(* A model of the CBT agent helper (cbt_mcp_server.py and                  *)
(* deep_thinking_enhancement.py): the in-memory session registry with its  *)
(* staleness sweep, the input validators, and the rule-based content       *)
(* tools.  Python strings are TLA+ strings; strip() and the substring      *)
(* test `in` are computed on them with Len and SubSeq.                     *)
(***************************************************************************)
EXTENDS Integers, Sequences, FiniteSets, TLC

VARIABLES
    SESSIONS,   \* the global registry: session id -> AgentSession
    now,        \* the value datetime.now() returns, in hours
    nextOid,    \* identity of the next AgentSession object to be allocated
    op,         \* name of the operation performed last
    args,       \* its arguments (with `at`, the clock reading it saw)
    ret,        \* what it returned (or the exception it raised)
    pre,        \* SESSIONS as it was when that operation was called
    streak,     \* the sweeps called in succession up to now (the last two)
    THINKING_SESSIONS,  \* the deep-thinking registry: id -> ThinkingSession
    memo,       \* one earlier content-tool call, kept with what it returned
    callers     \* concurrent callers: where each is in its code, the record
                \* it holds, and the records no longer in the registry

vars ==
    <<SESSIONS, now, nextOid, op, args, ret, pre, streak, THINKING_SESSIONS,
      memo, callers>>

----------------------------------------------------------------------------
(* Bounds of the model *)

MaxTime == 2        \* the clock stops advancing here
MaxLog == 1         \* longest intervention / progress log explored
MaxObjects == 3     \* AgentSession objects allocated in one behaviour
MaxLongLog == 2     \* longest log where only the appends are explored
MaxNotes == 2       \* longest question / perspective log next to the other tools
MaxRounds == 7      \* longest question log where one questioning tool is explored
MaxThoughts == 10   \* largest thought_count, either side of zero

----------------------------------------------------------------------------
(* Inputs *)

SessionIdInputs == {"", " ", "a", " a", "a ", "b"}
ProblemInputs == {"", "  ", "p", " q "}
RegistryIds == {"a", "b"}
OneId == {"a"}
OneIdInputs == {"", " ", "a", " a"}
InterventionInputs == {"analyze_stuck_pattern", "reframe_thought"}
ProgressInputs == {"Made first attempt", "Found alternative approach"}
HoursInputs == {0, 1}

----------------------------------------------------------------------------
(* Python string helpers *)

Whitespace == {" ", "\t", "\n"}

RECURSIVE lstrip(_)
lstrip(s) ==
    IF Len(s) > 0 /\ SubSeq(s, 1, 1) \in Whitespace
    THEN lstrip(SubSeq(s, 2, Len(s)))
    ELSE s

RECURSIVE rstrip(_)
rstrip(s) ==
    IF Len(s) > 0 /\ SubSeq(s, Len(s), Len(s)) \in Whitespace
    THEN rstrip(SubSeq(s, 1, Len(s) - 1))
    ELSE s

strip(s) == lstrip(rstrip(s))

\* Python's `k in s` for strings
Contains(k, s) ==
    \E i \in 1..(Len(s) - Len(k) + 1) : SubSeq(s, i, i + Len(k) - 1) = k

UpperLetters == "ABCDEFGHIJKLMNOPQRSTUVWXYZ"
LowerLetters == "abcdefghijklmnopqrstuvwxyz"
Digits == "0123456789"

CharAt(s, i) == SubSeq(s, i, i)

\* position of the one-character string c in s, 0 when it is not there
IndexOf(c, s) ==
    IF \E i \in 1..Len(s) : CharAt(s, i) = c
    THEN CHOOSE i \in 1..Len(s) :
             CharAt(s, i) = c /\ \A j \in 1..(i - 1) : CharAt(s, j) # c
    ELSE 0

\* the letter c in the other case, c itself when it has none
LowerChar ==
    [c \in {CharAt(UpperLetters, i) : i \in 1..26} |->
        CharAt(LowerLetters, IndexOf(c, UpperLetters))]

UpperChar ==
    [c \in {CharAt(LowerLetters, i) : i \in 1..26} |->
        CharAt(UpperLetters, IndexOf(c, LowerLetters))]

RECURSIVE lower(_)
lower(s) ==
    IF s = "" THEN ""
    ELSE LET c == CharAt(s, 1)
         IN  (IF c \in DOMAIN LowerChar THEN LowerChar[c] ELSE c)
                 \o lower(SubSeq(s, 2, Len(s)))

RECURSIVE upper(_)
upper(s) ==
    IF s = "" THEN ""
    ELSE LET c == CharAt(s, 1)
         IN  (IF c \in DOMAIN UpperChar THEN UpperChar[c] ELSE c)
                 \o upper(SubSeq(s, 2, Len(s)))

----------------------------------------------------------------------------
(* Python values of the loosely typed parameters, tagged with their type *)

PyNone == [t |-> "NoneType"]
PyBool(b) == [t |-> "bool", v |-> b]
PyInt(n) == [t |-> "int", v |-> n]
PyStr(x) == [t |-> "str", v |-> x]
PyList(q) == [t |-> "list", v |-> q]
PyDict(keys) == [t |-> "dict", v |-> keys]
Raise(exc) == [kind |-> "raise", exc |-> exc]

\* bool(x)
Truthy(x) ==
    CASE x.t = "NoneType" -> FALSE
      [] x.t = "bool"     -> x.v
      [] x.t = "int"      -> x.v # 0
      [] x.t = "str"      -> x.v # ""
      [] x.t = "list"     -> x.v # <<>>
      [] x.t = "dict"     -> x.v # <<>>

\* x or []
OrEmptyList(x) == IF Truthy(x) THEN x ELSE PyList(<<>>)

HasLen(x) == x.t \in {"str", "list", "dict"}

\* len(x), for the types that have one
PyLen(x) == Len(x.v)

IsDigits(x) == x # "" /\ \A i \in 1..Len(x) : IndexOf(CharAt(x, i), Digits) > 0

RECURSIVE DigitsValue(_)
DigitsValue(x) ==
    IF x = "" THEN 0
    ELSE DigitsValue(SubSeq(x, 1, Len(x) - 1)) * 10
             + (IndexOf(CharAt(x, Len(x)), Digits) - 1)

\* int(x) for a string: surrounding whitespace and a sign are accepted
int(x) ==
    LET b == strip(x)
        signed == b # "" /\ CharAt(b, 1) \in {"+", "-"}
        digits == IF signed THEN SubSeq(b, 2, Len(b)) ELSE b
    IN  IF IsDigits(digits)
        THEN PyInt(IF signed /\ CharAt(b, 1) = "-"
                   THEN 0 - DigitsValue(digits) ELSE DigitsValue(digits))
        ELSE Raise("ValueError")

\* the pieces of x between commas
RECURSIVE SplitCommas(_)
SplitCommas(x) ==
    LET i == IndexOf(",", x)
    IN  IF i = 0 THEN <<x>>
        ELSE <<SubSeq(x, 1, i - 1)>> \o SplitCommas(SubSeq(x, i + 1, Len(x)))

Quote == "\""

\* a JSON scalar: null, true, false, an integer, or a string without escapes
json_scalar(x) ==
    LET b == strip(x)
    IN  IF b = "null" THEN PyNone
        ELSE IF b = "true" THEN PyBool(TRUE)
        ELSE IF b = "false" THEN PyBool(FALSE)
        ELSE IF IsDigits(b) /\ (Len(b) = 1 \/ CharAt(b, 1) # "0")
        THEN PyInt(DigitsValue(b))
        ELSE IF /\ Len(b) >= 2 /\ CharAt(b, 1) = "-"
                /\ IsDigits(SubSeq(b, 2, Len(b)))
                /\ (Len(b) = 2 \/ CharAt(b, 2) # "0")
        THEN PyInt(0 - DigitsValue(SubSeq(b, 2, Len(b))))
        ELSE IF /\ Len(b) >= 2
                /\ CharAt(b, 1) = Quote
                /\ CharAt(b, Len(b)) = Quote
                /\ IndexOf(Quote, SubSeq(b, 2, Len(b) - 1)) = 0
                /\ IndexOf("\\", b) = 0
        THEN PyStr(SubSeq(b, 2, Len(b) - 1))
        ELSE Raise("JSONDecodeError")

\* json.loads on the documents the inputs are drawn from: a scalar, an empty
\* object, or a flat array of scalars; anything else is a decode error
json_loads(x) ==
    LET b == strip(x)
    IN  IF b = "{}" THEN PyDict(<<>>)
        ELSE IF Len(b) >= 2 /\ CharAt(b, 1) = "[" /\ CharAt(b, Len(b)) = "]"
        THEN LET body == SubSeq(b, 2, Len(b) - 1)
                 items == IF strip(body) = "" THEN <<>> ELSE SplitCommas(body)
                 vals == [i \in 1..Len(items) |-> json_scalar(items[i])]
             IN  IF \E i \in 1..Len(items) : "kind" \in DOMAIN vals[i]
                 THEN Raise("JSONDecodeError")
                 ELSE PyList(vals)
        ELSE json_scalar(b)

\* the list-or-JSON-string normalisation shared by the content tools
ListOrJson(x) ==
    LET decoded == IF x.t = "str"
                   THEN LET j == json_loads(x.v)
                        IN  IF "kind" \in DOMAIN j THEN PyList(<<>>) ELSE j
                   ELSE x
    IN  OrEmptyList(decoded)

----------------------------------------------------------------------------
(* Session management *)

SessionState == {"INITIAL", "IN_PROGRESS", "IMPROVING", "RESOLVED", "ESCALATED"}

\* a record that is born already started
AgentSession_started(session_id, start_time, o) ==
    [ session_id          |-> session_id,
      start_time          |-> start_time,
      state               |-> "IN_PROGRESS",
      primary_issue       |-> "",
      interventions_tried |-> <<>>,
      progress_indicators |-> <<>>,
      frustration_history |-> <<>>,
      context_history     |-> <<>>,
      last_update         |-> start_time,
      oid                 |-> o ]

AgentSession(session_id, start_time, o) ==
    [ session_id          |-> session_id,
      start_time          |-> start_time,
      state               |-> "INITIAL",
      primary_issue       |-> "",
      interventions_tried |-> <<>>,
      progress_indicators |-> <<>>,
      frustration_history |-> <<>>,
      context_history     |-> <<>>,
      last_update         |-> start_time,
      oid                 |-> o ]

\* an append that skips an intervention already in the log
add_intervention_once(session, intervention, t) ==
    IF \E i \in 1..Len(session.interventions_tried) :
           session.interventions_tried[i] = intervention
    THEN [session EXCEPT !.last_update = t]
    ELSE [session EXCEPT !.interventions_tried = Append(@, intervention),
                         !.last_update = t]

add_intervention(session, intervention, t) ==
    [session EXCEPT !.interventions_tried = Append(@, intervention),
                    !.last_update = t]

\* a setter that wipes the primary issue when the session is set back
update_state_resets(session, new_state, t) ==
    [session EXCEPT !.state = new_state,
                    !.primary_issue = IF new_state = "INITIAL" THEN "" ELSE @,
                    !.last_update = t]

\* a setter that refuses to leave a closed (resolved or escalated) session
update_state_guarded(session, new_state, t) ==
    IF session.state \in {"RESOLVED", "ESCALATED"}
    THEN session
    ELSE [session EXCEPT !.state = new_state, !.last_update = t]

\* a setter that takes a repeated state for progress and moves on
update_state_advances(session, new_state, t) ==
    [session EXCEPT !.state = IF @ = new_state THEN "IMPROVING" ELSE new_state,
                    !.last_update = t]

update_state(session, new_state, t) ==
    [session EXCEPT !.state = new_state, !.last_update = t]

\* an append that forgets to touch the record
add_progress_untimed(session, indicator, t) ==
    [session EXCEPT !.progress_indicators = Append(@, indicator)]

add_progress(session, indicator, t) ==
    [session EXCEPT !.progress_indicators = Append(@, indicator),
                    !.last_update = t]

EmptyRegistry == [k \in {} |-> 0]

Restrict(S, keys) == [k \in keys |-> S[k]]

Store(S, key, session) ==
    [k \in DOMAIN S \cup {key} |-> IF k = key THEN session ELSE S[k]]

\* Exceptions and return values
ValidationError(msg) == [kind |-> "raise", exc |-> "ValidationError", msg |-> msg]
ErrorMapping(msg) == [kind |-> "dict", error |-> msg, status |-> "failed"]
NoneValue == [kind |-> "None"]

\* a validator that tests the trimmed text but hands back the text as given
validate_non_empty_string_as_given(value, field_name) ==
    IF value = "" \/ strip(value) = ""
    THEN ValidationError(field_name \o " cannot be empty")
    ELSE [kind |-> "str", value |-> value]

validate_non_empty_string(value, field_name) ==
    IF value = "" \/ strip(value) = ""
    THEN ValidationError(field_name \o " cannot be empty")
    ELSE [kind |-> "str", value |-> strip(value)]

\* a store that keeps the record another caller put there in the meantime
create_session_if_absent(S, session_id, t, o) ==
    IF session_id \in DOMAIN S
    THEN S
    ELSE Store(S, session_id, AgentSession(session_id, t, o))

\* the assignment in get_session's `if` branch, taken on its own
create_session(S, session_id, t, o) ==
    Store(S, session_id, AgentSession(session_id, t, o))

\* a lookup that forgets the membership test and always stores a new record
get_session_always_creates(S, session_id, t, o) ==
    Store(S, session_id, AgentSession(session_id, t, o))

\* get_session: the registry after the call
get_session(S, session_id, t, o) ==
    IF session_id \notin DOMAIN S
    THEN Store(S, session_id, AgentSession(session_id, t, o))
    ELSE S

\* a sweep that also deletes the records touched exactly at the cutoff
clean_old_sessions_inclusive(S, hours, t) ==
    LET cutoff == t - hours
        old_sessions == {sid \in DOMAIN S : S[sid].last_update <= cutoff}
    IN  [ sessions |-> Restrict(S, DOMAIN S \ old_sessions),
          ret      |-> NoneValue ]

\* a sweep that ignores its argument and always uses a one-hour threshold
clean_old_sessions_ignores_hours(S, hours, t) ==
    LET cutoff == t - 1
        old_sessions == {sid \in DOMAIN S : S[sid].last_update < cutoff}
    IN  [ sessions |-> Restrict(S, DOMAIN S \ old_sessions),
          ret      |-> NoneValue ]

clean_old_sessions(S, hours, t) ==
    LET cutoff == t - hours
        old_sessions == {sid \in DOMAIN S : S[sid].last_update < cutoff}
    IN  [ sessions |-> Restrict(S, DOMAIN S \ old_sessions),
          ret      |-> NoneValue ]

StartedMapping(sid, problem) ==
    [ kind |-> "dict",
      session_id |-> sid,
      status |-> "session_started",
      problem_statement |-> problem ]

\* a start that first sweeps the records idle for more than an hour
start_session_sweeps(S, session_id, initial_problem, t, o) ==
    LET v1 == validate_non_empty_string(session_id, "session_id")
        v2 == validate_non_empty_string(initial_problem, "initial_problem")
    IN  IF v1.kind = "raise"
        THEN [sessions |-> S, ret |-> ErrorMapping(v1.msg)]
        ELSE IF v2.kind = "raise"
        THEN [sessions |-> S, ret |-> ErrorMapping(v2.msg)]
        ELSE LET sid == v1.value
                 S0 == clean_old_sessions(S, 1, t).sessions
                 S1 == get_session(S0, sid, t, o)
                 s1 == [S1[sid] EXCEPT !.primary_issue = v2.value]
                 s2 == update_state(s1, "IN_PROGRESS", t)
             IN  [ sessions |-> Store(S1, sid, s2),
                   ret |-> StartedMapping(sid, v2.value) ]

\* a start that replaces the record by a fresh one
start_session_resets(S, session_id, initial_problem, t, o) ==
    LET v1 == validate_non_empty_string(session_id, "session_id")
        v2 == validate_non_empty_string(initial_problem, "initial_problem")
    IN  IF v1.kind = "raise"
        THEN [sessions |-> S, ret |-> ErrorMapping(v1.msg)]
        ELSE IF v2.kind = "raise"
        THEN [sessions |-> S, ret |-> ErrorMapping(v2.msg)]
        ELSE LET sid == v1.value
                 s1 == [AgentSession(sid, t, o) EXCEPT !.primary_issue = v2.value]
                 s2 == update_state(s1, "IN_PROGRESS", t)
             IN  [ sessions |-> Store(S, sid, s2),
                   ret |-> StartedMapping(sid, v2.value) ]

\* a start that looks the session up before it validates the problem text
start_session_validates_late(S, session_id, initial_problem, t, o) ==
    LET v1 == validate_non_empty_string(session_id, "session_id")
        v2 == validate_non_empty_string(initial_problem, "initial_problem")
    IN  IF v1.kind = "raise"
        THEN [sessions |-> S, ret |-> ErrorMapping(v1.msg)]
        ELSE LET sid == v1.value
                 S1 == get_session(S, sid, t, o)
             IN  IF v2.kind = "raise"
                 THEN [sessions |-> S1, ret |-> ErrorMapping(v2.msg)]
                 ELSE LET s1 == [S1[sid] EXCEPT !.primary_issue = v2.value]
                          s2 == update_state(s1, "IN_PROGRESS", t)
                      IN  [ sessions |-> Store(S1, sid, s2),
                            ret |-> StartedMapping(sid, v2.value) ]

start_session(S, session_id, initial_problem, t, o) ==
    LET v1 == validate_non_empty_string(session_id, "session_id")
        v2 == validate_non_empty_string(initial_problem, "initial_problem")
    IN  IF v1.kind = "raise"
        THEN [sessions |-> S, ret |-> ErrorMapping(v1.msg)]
        ELSE IF v2.kind = "raise"
        THEN [sessions |-> S, ret |-> ErrorMapping(v2.msg)]
        ELSE LET sid == v1.value
                 S1 == get_session(S, sid, t, o)
                 s1 == [S1[sid] EXCEPT !.primary_issue = v2.value]
                 s2 == update_state(s1, "IN_PROGRESS", t)
             IN  [ sessions |-> Store(S1, sid, s2),
                   ret |-> StartedMapping(sid, v2.value) ]

----------------------------------------------------------------------------
(* The content tools *)

validate_frustration_level(level) ==
    IF level.t # "int" \/ level.v < 1 \/ level.v > 10
    THEN ValidationError("Frustration level must be an integer between 1 and 10")
    ELSE [kind |-> "int", value |-> level.v]

\* the strategies analyze_stuck_pattern chooses among
CBT_STRATEGIES ==
    [ cognitive_reframing |->
        [ name |-> "Cognitive Reframing",
          prompts |-> << "What evidence supports or contradicts this thought?",
                         "Is there another way to look at this situation?",
                         "What would you tell another agent in this situation?",
                         "Are you catastrophizing or making assumptions?" >> ],
      thought_challenging |->
        [ name |-> "Thought Challenging",
          prompts |-> << "Is this thought based on facts or feelings?",
                         "Am I using all-or-nothing thinking?",
                         "What's the worst that could realistically happen?",
                         "What's the most likely outcome?" >> ],
      problem_solving |->
        [ name |-> "Problem Solving",
          prompts |-> << "What exactly is the problem?",
                         "What are possible solutions?",
                         "What are the pros and cons of each solution?",
                         "What's the smallest step you can take right now?" >> ],
      behavioral_activation |->
        [ name |-> "Behavioral Activation",
          prompts |-> << "What's one small action you can take?",
                         "What has worked in similar situations before?",
                         "Can you break this into smaller tasks?",
                         "What would success look like?" >> ],
      mindfulness |->
        [ name |-> "Mindfulness",
          prompts |-> << "What are the facts of the current situation?",
                         "What can you control right now?",
                         "Are you focused on past failures or future worries?",
                         "What information do you have available?" >> ] ]

\* a selection that tests the overwhelm keywords before the error keywords
select_strategy_overwhelm_first(stuck_pattern) ==
    IF Contains("overwhelm", stuck_pattern) \/ Contains("complex", stuck_pattern)
    THEN CBT_STRATEGIES.behavioral_activation
    ELSE IF Contains("error", stuck_pattern) \/ Contains("loop", stuck_pattern)
    THEN CBT_STRATEGIES.problem_solving
    ELSE IF Contains("unclear", stuck_pattern) \/ Contains("confus", stuck_pattern)
    THEN CBT_STRATEGIES.mindfulness
    ELSE IF Contains("indecis", stuck_pattern) \/ Contains("choice", stuck_pattern)
    THEN CBT_STRATEGIES.thought_challenging
    ELSE CBT_STRATEGIES.cognitive_reframing

\* the if/elif chain of analyze_stuck_pattern
select_strategy(stuck_pattern) ==
    IF Contains("error", stuck_pattern) \/ Contains("loop", stuck_pattern)
    THEN CBT_STRATEGIES.problem_solving
    ELSE IF Contains("overwhelm", stuck_pattern) \/ Contains("complex", stuck_pattern)
    THEN CBT_STRATEGIES.behavioral_activation
    ELSE IF Contains("unclear", stuck_pattern) \/ Contains("confus", stuck_pattern)
    THEN CBT_STRATEGIES.mindfulness
    ELSE IF Contains("indecis", stuck_pattern) \/ Contains("choice", stuck_pattern)
    THEN CBT_STRATEGIES.thought_challenging
    ELSE CBT_STRATEGIES.cognitive_reframing

ErrorSuggestions ==
    << "Focus on the first error message only",
       "Check if this error has been solved before in documentation",
       "Try a minimal reproduction of the problem" >>

StepBackSuggestions ==
    << "You've tried multiple approaches - take a step back",
       "Consider if you're solving the right problem",
       "Maybe the issue is with assumptions, not implementation" >>

\* a rule that already counts two attempts as "multiple approaches"
specific_suggestions_after_one(attempted, errors) ==
    (IF Truthy(errors) THEN ErrorSuggestions ELSE <<>>)
    \o (IF PyLen(attempted) > 1 THEN StepBackSuggestions ELSE <<>>)

\* the two `if` blocks that extend intervention["specific_suggestions"]
specific_suggestions(attempted, errors) ==
    (IF Truthy(errors) THEN ErrorSuggestions ELSE <<>>)
    \o (IF PyLen(attempted) > 2 THEN StepBackSuggestions ELSE <<>>)

analyze_stuck_pattern(current_situation, stuck_pattern, attempted_solutions, error_messages) ==
    LET attempted == ListOrJson(attempted_solutions)
        errors == ListOrJson(error_messages)
        strategy == select_strategy(stuck_pattern)
    IN  IF ~HasLen(attempted)
        THEN Raise("TypeError")
        ELSE [ kind |-> "dict",
               identified_pattern |-> stuck_pattern,
               strategy_applied |-> strategy.name,
               guided_questions |-> strategy.prompts,
               specific_suggestions |-> specific_suggestions(attempted, errors),
               reframed_perspective |->
                   "Instead of seeing this as '" \o stuck_pattern
                   \o "', consider it as 'an opportunity to find a creative solution'"
                   \o " or 'a chance to learn something new about the system'.",
               next_actions |->
                   << "Take a 30-second pause to reset cognitive state",
                      "List three facts you know for certain about the situation",
                      "Identify one small, testable hypothesis",
                      "Try the simplest possible approach first" >> ]

reframe_thought(negative_thought, context) ==
    [ kind |-> "dict",
      original_thought |-> negative_thought,
      context |-> IF Truthy(context) THEN context.v ELSE "",
      reframes |->
          << [ type |-> "Evidence-based",
               reframe |->
                   "What evidence supports this thought? What evidence contradicts it? "
                   \o "Consider: '" \o negative_thought
                   \o "' might be an assumption rather than a fact." ],
             [ type |-> "Best-friend",
               reframe |->
                   "If another agent told you '" \o negative_thought
                   \o "', what would you say to help them? "
                   \o "Apply that same compassion to yourself." ],
             [ type |-> "Probability",
               reframe |->
                   "On a scale of 0-100%, how likely is this worst-case scenario? "
                   \o "What's the most likely outcome instead?" ],
             [ type |-> "Growth-mindset",
               reframe |->
                   "Instead of '" \o negative_thought
                   \o "', try: 'This is challenging, and I'm learning how to handle it.'" ] >>,
      balanced_thought |->
          "A more balanced view might be: While there are challenges, "
          \o "I have resources and strategies to work through them step by step." ]

\* ' '.join(q) for a sequence of strings
RECURSIVE JoinSpaces(_)
JoinSpaces(q) ==
    IF q = <<>> THEN ""
    ELSE IF Len(q) = 1 THEN q[1]
    ELSE q[1] \o " " \o JoinSpaces(Tail(q))

\* ' '.join(x): x must be iterable and yield strings; a string yields its
\* characters
join(x) ==
    IF x.t = "list"
    THEN IF \A i \in 1..Len(x.v) : x.v[i].t = "str"
         THEN PyStr(JoinSpaces([i \in 1..Len(x.v) |-> x.v[i].v]))
         ELSE Raise("TypeError")
    ELSE IF x.t = "str"
    THEN PyStr(JoinSpaces([i \in 1..Len(x.v) |-> CharAt(x.v, i)]))
    ELSE Raise("TypeError")

ImmediateActions ==
    << [ step |-> 1, action |-> "Define the minimum viable solution",
         duration |-> "2 minutes", purpose |-> "Clarify scope" ],
       [ step |-> 2, action |-> "List what you already know",
         duration |-> "1 minute", purpose |-> "Build confidence" ],
       [ step |-> 3, action |-> "Identify the first testable step",
         duration |-> "1 minute", purpose |-> "Create momentum" ],
       [ step |-> 4, action |-> "Execute that one step",
         duration |-> "5 minutes", purpose |-> "Break inertia" ],
       [ step |-> 5, action |-> "Evaluate and adjust",
         duration |-> "1 minute", purpose |-> "Learn and iterate" ] >>

create_action_plan(goal, obstacles, time_pressure) ==
    LET normalised == ListOrJson(obstacles)
        obstacles_str == IF Truthy(normalised) THEN join(normalised) ELSE PyStr("")
    IN  IF "kind" \in DOMAIN obstacles_str
        THEN obstacles_str
        ELSE LET low == lower(obstacles_str.v)
             IN  [ kind |-> "dict",
                   goal |-> goal,
                   mindset_shift |->
                       IF Truthy(time_pressure)
                       THEN "Done is better than perfect"
                       ELSE "Progress over perfection",
                   immediate_actions |->
                       IF Truthy(time_pressure)
                       THEN SubSeq(ImmediateActions, 1, 3)
                       ELSE ImmediateActions,
                   backup_strategies |->
                       (IF Contains("complexity", low)
                        THEN <<"Simplify ruthlessly - what's the 20% that gives 80% value?">>
                        ELSE <<>>)
                       \o (IF Contains("uncertainty", low)
                           THEN <<"Make assumptions explicit and test them one by one">>
                           ELSE <<>>)
                       \o (IF Contains("perfect", low)
                           THEN <<"Ship a 'good enough' version, then iterate">>
                           ELSE <<>>),
                   success_criteria |->
                       "Any forward movement is success. "
                       \o "Learning what doesn't work is valuable progress." ]

\* str(x) as an f-string formats it
Format(x) ==
    CASE x.t = "int"      -> ToString(x.v)
      [] x.t = "str"      -> x.v
      [] x.t = "NoneType" -> "None"
      [] x.t = "bool"     -> IF x.v THEN "True" ELSE "False"

regulate_frustration(frustration_level, trigger) ==
    IF frustration_level.t \notin {"int", "bool"}
    THEN Raise("TypeError")
    ELSE [ kind |-> "dict",
           validation |->
               "Frustration level " \o Format(frustration_level) \o "/10 about '"
               \o trigger \o "' is acknowledged. "
               \o "It's normal to feel frustrated when facing obstacles.",
           grounding_exercises |->
               << "State 3 facts about your current environment",
                  "List 3 things that are working correctly right now",
                  "Name 3 resources you have available" >>,
           perspective_shifts |->
               IF frustration_level.t = "int" /\ frustration_level.v > 7
               THEN << "This intense frustration might be a signal to take a different approach",
                       "High frustration often means you care about doing well",
                       "Every expert has felt this frustration while learning" >>
               ELSE << "Moderate frustration can fuel problem-solving",
                       "This challenge is temporary and solvable",
                       "You've overcome similar frustrations before" >>,
           coping_statements |->
               << "I can handle this one step at a time",
                  "This is difficult, not impossible",
                  "I'm learning and growing through this challenge",
                  "It's okay to ask for help or try a different approach" >> ]

\* a result stamped with the time of the call
Assessment_stamped(status, load, recommendations, intervention) ==
    [ kind |-> "dict",
      status |-> status,
      recommendations |-> recommendations,
      cognitive_load |-> load,
      suggested_intervention |-> intervention,
      checked_at |-> now ]

Assessment(status, load, recommendations, intervention) ==
    [ kind |-> "dict",
      status |-> status,
      recommendations |-> recommendations,
      cognitive_load |-> load,
      suggested_intervention |-> intervention ]

\* a check that looks at the length of the task before the lack of progress
wellness_check_long_first(current_task, time_on_task, progress_made) ==
    LET minutes == IF time_on_task.t = "str"
                   THEN (IF time_on_task.v # "" THEN int(time_on_task.v) ELSE PyInt(0))
                   ELSE (IF Truthy(time_on_task) THEN time_on_task ELSE PyInt(0))
        progress == IF progress_made.t = "str"
                    THEN lower(progress_made.v) = "true"
                    ELSE Truthy(progress_made)
    IN  IF "kind" \in DOMAIN minutes
        THEN minutes
        ELSE IF minutes.v > 60
        THEN Assessment("Extended focus - watch for tunnel vision", "Medium-High",
                        << "Zoom out and review overall goal",
                           "Check if initial assumptions still hold",
                           "Consider alternative approaches" >>,
                        PyNone)
        ELSE IF minutes.v > 30 /\ ~progress
        THEN Assessment("Potential cognitive fatigue or stuck pattern", "High",
                        << "Take a 2-minute reset break",
                           "Switch to a different subtask temporarily",
                           "Verbalize the problem out loud",
                           "Check if you're solving the right problem" >>,
                        PyStr("analyze_stuck_pattern"))
        ELSE IF progress
        THEN Assessment("Healthy progress pattern", "Manageable",
                        << "Continue current approach",
                           "Document what's working",
                           "Maintain momentum" >>,
                        PyNone)
        ELSE Assessment("Early stage - gathering information", "Low-Medium",
                        << "Clarify requirements if needed",
                           "Break task into smaller pieces",
                           "Set a small, achievable first goal" >>,
                        PyNone)

wellness_check(current_task, time_on_task, progress_made) ==
    LET minutes == IF time_on_task.t = "str"
                   THEN (IF time_on_task.v # "" THEN int(time_on_task.v) ELSE PyInt(0))
                   ELSE (IF Truthy(time_on_task) THEN time_on_task ELSE PyInt(0))
        progress == IF progress_made.t = "str"
                    THEN lower(progress_made.v) = "true"
                    ELSE Truthy(progress_made)
    IN  IF "kind" \in DOMAIN minutes
        THEN minutes
        ELSE IF minutes.v > 30 /\ ~progress
        THEN Assessment("Potential cognitive fatigue or stuck pattern", "High",
                        << "Take a 2-minute reset break",
                           "Switch to a different subtask temporarily",
                           "Verbalize the problem out loud",
                           "Check if you're solving the right problem" >>,
                        PyStr("analyze_stuck_pattern"))
        ELSE IF minutes.v > 60
        THEN Assessment("Extended focus - watch for tunnel vision", "Medium-High",
                        << "Zoom out and review overall goal",
                           "Check if initial assumptions still hold",
                           "Consider alternative approaches" >>,
                        PyNone)
        ELSE IF progress
        THEN Assessment("Healthy progress pattern", "Manageable",
                        << "Continue current approach",
                           "Document what's working",
                           "Maintain momentum" >>,
                        PyNone)
        ELSE Assessment("Early stage - gathering information", "Low-Medium",
                        << "Clarify requirements if needed",
                           "Break task into smaller pieces",
                           "Set a small, achievable first goal" >>,
                        PyNone)

----------------------------------------------------------------------------
(* Deep thinking sessions *)

ThinkingDepth == {"SURFACE", "SHALLOW", "MODERATE", "DEEP", "PROFOUND"}

\* a member of the ThinkingDepth enum; its .value is the lower-case name
DepthMember(name) == [t |-> "ThinkingDepth", v |-> name]
DepthValue(member) == lower(member.v)

ThinkingSession(session_id, initial_prompt, current_depth) ==
    [ session_id              |-> session_id,
      initial_prompt          |-> initial_prompt,
      thought_tree            |-> <<>>,
      current_depth           |-> current_depth,
      total_thinking_time     |-> 0,
      thought_count           |-> 0,
      max_depth_reached       |-> 0,
      insights_generated      |-> <<>>,
      questions_explored      |-> <<>>,
      assumptions_challenged  |-> <<>>,
      perspectives_considered |-> <<>> ]

METACOGNITIVE_PROMPTS ==
    [ thinking_about_thinking |->
        << "How am I approaching this problem?",
           "What thinking strategies am I using?",
           "Am I thinking deeply enough about this?",
           "What cognitive biases might be affecting me?",
           "How confident am I in my reasoning?",
           "What's the quality of my thinking right now?",
           "Where are the gaps in my understanding?" >>,
      process_reflection |->
        << "What has my thinking process been so far?",
           "Which approaches have been most fruitful?",
           "Where did I get stuck and why?",
           "What thinking tools haven't I tried yet?",
           "How could I think about this differently?",
           "What would improve my thinking process?",
           "Am I asking the right questions?" >>,
      depth_assessment |->
        << "Have I explored this thoroughly enough?",
           "What aspects deserve deeper investigation?",
           "Where am I being superficial?",
           "What complexity am I avoiding?",
           "How many layers deep have I gone?",
           "What would constitute a complete exploration?",
           "When will I know I've thought enough?" >> ]

Min(a, b) == IF a < b THEN a ELSE b

DeepWords == {"why", "how", "what if", "underlying", "essence", "fundamental"}

IsDeepQuestion(q) == \E word \in DeepWords : Contains(word, lower(q))

\* avg_score is the sum of four scores over 4: the thresholds 80, 65, 50, 35
\* are compared with the sum times 4 to stay in the integers
calculate_thinking_metrics(session) ==
    LET depth_score ==
            IF session.max_depth_reached > 5 THEN 90
            ELSE IF session.max_depth_reached > 3 THEN 70
            ELSE IF session.max_depth_reached > 1 THEN 50
            ELSE 30
        breadth_score == Min(100, Len(session.perspectives_considered) * 15)
        integration_score ==
            IF Len(session.insights_generated) > 5 THEN 85
            ELSE IF Len(session.insights_generated) > 2 THEN 60
            ELSE 35
        insight_density ==
            IF session.total_thinking_time > 0
            THEN Min(100, (Len(session.insights_generated) * 60 * 20)
                              \div session.total_thinking_time)
            ELSE 0
        deep_questions ==
            Cardinality({i \in 1..Len(session.questions_explored) :
                             IsDeepQuestion(session.questions_explored[i])})
        question_quality == Min(100, deep_questions * 20)
        total == depth_score + breadth_score + integration_score + question_quality
    IN  [ depth_score           |-> PyInt(depth_score),
          breadth_score         |-> PyInt(breadth_score),
          integration_score     |-> PyInt(integration_score),
          insight_density       |-> PyInt(insight_density),
          question_quality      |-> PyInt(question_quality),
          assumption_awareness  |-> PyInt(Min(100, Len(session.assumptions_challenged) * 25)),
          perspective_diversity |-> PyInt(Min(100, Len(session.perspectives_considered) * 20)),
          overall_rating        |->
              IF total > 80 * 4 THEN DepthMember("PROFOUND")
              ELSE IF total > 65 * 4 THEN DepthMember("DEEP")
              ELSE IF total > 50 * 4 THEN DepthMember("MODERATE")
              ELSE IF total > 35 * 4 THEN DepthMember("SHALLOW")
              ELSE DepthMember("SURFACE") ]

\* `session_id and session_id in THINKING_SESSIONS`
Tracked(T, session_id) == Truthy(session_id) /\ session_id.v \in DOMAIN T

\* a version that files a session under the id before it looks up the depth
initiate_deep_thinking_stores_first(T, topic, desired_depth, session_id, t, choice) ==
    LET thinking_session_id ==
            IF Truthy(session_id) THEN session_id.v ELSE "think_" \o ToString(t)
        name == upper(desired_depth)
        stored == Store(T, thinking_session_id,
                        ThinkingSession(thinking_session_id, topic, name))
    IN  IF name \notin ThinkingDepth
        THEN [ sessions |-> stored,
               ret |-> ErrorMapping("'" \o name \o "'") ]
        ELSE [ sessions |-> stored,
               ret |-> [ kind |-> "dict",
                         session_id |-> thinking_session_id,
                         topic |-> topic,
                         desired_depth |-> desired_depth,
                         reflection_loop |->
                             [ type |-> "reflection_loop",
                               target_depth |-> DepthValue(DepthMember(name)) ],
                         metacognitive_check |->
                             METACOGNITIVE_PROMPTS.thinking_about_thinking[choice] ] ]

\* a version that keeps the session an id already names
initiate_deep_thinking_keeps_existing(T, topic, desired_depth, session_id, t, choice) ==
    LET thinking_session_id ==
            IF Truthy(session_id) THEN session_id.v ELSE "think_" \o ToString(t)
        name == upper(desired_depth)
    IN  IF name \notin ThinkingDepth
        THEN [ sessions |-> T,
               ret |-> ErrorMapping("'" \o name \o "'") ]
        ELSE [ sessions |->
                   IF thinking_session_id \in DOMAIN T THEN T
                   ELSE Store(T, thinking_session_id,
                              ThinkingSession(thinking_session_id, topic, name)),
               ret |-> [ kind |-> "dict",
                         session_id |-> thinking_session_id,
                         topic |-> topic,
                         desired_depth |-> desired_depth,
                         reflection_loop |->
                             [ type |-> "reflection_loop",
                               target_depth |-> DepthValue(DepthMember(name)) ],
                         metacognitive_check |->
                             METACOGNITIVE_PROMPTS.thinking_about_thinking[choice] ] ]

\* initiate_deep_thinking: the registry after the call and the result; choice
\* is the index random.choice picks for the opening metacognitive prompt (the
\* randomly sampled initial_prompts texts are left out of the result)
initiate_deep_thinking(T, topic, desired_depth, session_id, t, choice) ==
    LET thinking_session_id ==
            IF Truthy(session_id) THEN session_id.v ELSE "think_" \o ToString(t)
        name == upper(desired_depth)
    IN  IF name \notin ThinkingDepth
        THEN [ sessions |-> T,
               ret |-> ErrorMapping("'" \o name \o "'") ]
        ELSE [ sessions |-> Store(T, thinking_session_id,
                                  ThinkingSession(thinking_session_id, topic, name)),
               ret |-> [ kind |-> "dict",
                         session_id |-> thinking_session_id,
                         topic |-> topic,
                         desired_depth |-> desired_depth,
                         reflection_loop |->
                             [ type |-> "reflection_loop",
                               target_depth |-> DepthValue(DepthMember(name)) ],
                         metacognitive_check |->
                             METACOGNITIVE_PROMPTS.thinking_about_thinking[choice] ] ]

MetacognitivePromptsFor(check_type) ==
    IF check_type \in DOMAIN METACOGNITIVE_PROMPTS
    THEN METACOGNITIVE_PROMPTS[check_type]
    ELSE METACOGNITIVE_PROMPTS.thinking_about_thinking

metacognitive_check(T, current_thinking, check_type, session_id) ==
    LET prompts == MetacognitivePromptsFor(check_type)
        assessment ==
            [ kind |-> "dict",
              current_thinking |-> current_thinking,
              check_type |-> check_type,
              prompts |-> prompts,
              reflection_questions |->
                  << "What patterns do you notice in your thinking?",
                     "Where might you be getting stuck or limited?",
                     "What thinking strategies haven't you tried yet?",
                     "How could you think more deeply about this?" >> ]
    IN  IF Tracked(T, session_id)
        THEN LET metrics == calculate_thinking_metrics(T[session_id.v])
             IN  [ kind |-> "dict",
                   current_thinking |-> current_thinking,
                   check_type |-> check_type,
                   prompts |-> prompts,
                   reflection_questions |-> assessment.reflection_questions,
                   metrics |-> metrics,
                   recommendation |->
                       "Your thinking depth is currently: "
                       \o DepthValue(metrics.overall_rating)
                       \o "\nConsider: " \o prompts[1] ]
        ELSE assessment

\* the last n items of a list, as q[-n:]
LastItems(q, n) == IF Len(q) > n THEN SubSeq(q, Len(q) - n + 1, Len(q)) ELSE q

HasQuestionMark(q) == Contains("?", q)

thinking_session_summary(T, session_id) ==
    IF session_id \notin DOMAIN T
    THEN ErrorMapping("Thinking session " \o session_id \o " not found")
    ELSE LET session == T[session_id]
             metrics == calculate_thinking_metrics(session)
             rating == metrics.overall_rating.v
         IN  [ kind |-> "dict",
               session_id |-> session_id,
               initial_topic |-> session.initial_prompt,
               duration |-> ToString(session.total_thinking_time) \o ".0 seconds",
               metrics |-> metrics,
               exploration_summary |->
                   [ thoughts_generated |-> session.thought_count,
                     questions_explored |-> Len(session.questions_explored),
                     assumptions_challenged |-> Len(session.assumptions_challenged),
                     perspectives_considered |-> Len(session.perspectives_considered),
                     insights_generated |-> Len(session.insights_generated),
                     max_depth_reached |-> session.max_depth_reached ],
               key_insights |-> LastItems(session.insights_generated, 5),
               unexplored_questions |->
                   LastItems(SelectSeq(session.questions_explored, HasQuestionMark), 3),
               thinking_pattern |->
                   IF metrics.depth_score.v > 70
                   THEN "Deep and thorough" ELSE "Could go deeper",
               recommendation |->
                   IF rating = "SURFACE"
                   THEN "Try using thought experiments or recursive questioning to go deeper."
                   ELSE IF rating = "SHALLOW"
                   THEN "Good start. Use Socratic dialogue to challenge assumptions."
                   ELSE IF rating = "MODERATE"
                   THEN "Solid thinking. Try the depth ladder to reach profound insights."
                   ELSE IF rating = "DEEP"
                   THEN "Excellent depth. Consider different perspectives for breadth."
                   ELSE "Profound thinking achieved. Document and integrate insights." ]

----------------------------------------------------------------------------
(* The questioning tools *)

Max(a, b) == IF a > b THEN a ELSE b

\* q[:n] of a Python list
Slice(q, n) ==
    IF n >= 0 THEN SubSeq(q, 1, Min(n, Len(q)))
    ELSE SubSeq(q, 1, Max(Len(q) + n, 0))

\* the keys of SOCRATIC_CHAINS in insertion order
ChainOrder ==
    << "assumption_examination", "perspective_expansion",
       "implication_exploration", "depth_drilling", "complexity_embrace" >>

SOCRATIC_CHAINS ==
    [ assumption_examination |->
          << "What assumptions am I making here?",
             "Why do I believe this assumption is true?",
             "What evidence supports this assumption?",
             "What would happen if this assumption were false?",
             "Are there alternative assumptions I haven't considered?",
             "How might someone from a different background view this assumption?",
             "What's the deepest assumption underlying all of this?" >>,
      perspective_expansion |->
          << "How would I explain this to someone with no context?",
             "What would the opposite perspective look like?",
             "How might this look from a completely different field?",
             "What would a critic say about this?",
             "What would an enthusiast emphasize?",
             "How would this appear 10 years from now?",
             "What cultural or contextual factors am I missing?" >>,
      implication_exploration |->
          << "If this is true, what else must be true?",
             "What are the second-order effects?",
             "What are the third-order effects?",
             "What unexpected consequences might arise?",
             "How does this connect to other areas?",
             "What patterns does this reveal?",
             "What does this mean for the bigger picture?" >>,
      depth_drilling |->
          << "But why is that the case?",
             "And what causes that?",
             "What's underneath that reasoning?",
             "Can we go deeper into this aspect?",
             "What's the root cause here?",
             "What fundamental principle applies?",
             "What's the essence of this issue?" >>,
      complexity_embrace |->
          << "What nuances am I overlooking?",
             "Where is the complexity I'm avoiding?",
             "What contradictions exist here?",
             "How can multiple things be true at once?",
             "What paradoxes emerge from this?",
             "Where does simple reasoning break down?",
             "What makes this more complicated than it seems?" >> ]

DepthMarker(i) ==
    IF i < 2 THEN "Surface exploration"
    ELSE IF i < 4 THEN "Deeper inquiry"
    ELSE "Fundamental examination"

\* the rounds built from the selected questions; i is the 0-based index
Rounds(selected) ==
    [ r \in 1..Len(selected) |->
        LET i == r - 1
        IN  [ round |-> i + 1,
              question |-> selected[r],
              contemplation_time |-> ToString(15 * (i + 1)) \o " seconds",
              depth_marker |-> DepthMarker(i),
              follow_up |->
                  IF i = Len(selected) - 1
                  THEN "What core truth or uncertainty remains?"
                  ELSE "Sit with this question before moving on..." ] ]

\* socratic_dialogue: the registry after the call and the result; picks[c] is
\* the question random.sample draws from the c-th chain when the dialogue
\* type is not a key of SOCRATIC_CHAINS
socratic_dialogue(T, statement, dialogue_type, depth_level, session_id, picks) ==
    LET questions ==
            IF dialogue_type \in DOMAIN SOCRATIC_CHAINS
            THEN SOCRATIC_CHAINS[dialogue_type]
            ELSE [c \in 1..Len(ChainOrder) |-> SOCRATIC_CHAINS[ChainOrder[c]][picks[c]]]
        selected_questions == Slice(questions, Min(depth_level, Len(questions)))
    IN  [ sessions |->
              IF Tracked(T, session_id)
              THEN [T EXCEPT ![session_id.v] =
                       [@ EXCEPT !.questions_explored = @ \o selected_questions,
                                 !.thought_count = @ + Len(selected_questions)]]
              ELSE T,
          ret |-> [ kind |-> "dict",
                    type |-> "socratic_dialogue",
                    dialogue |-> [ initial_statement |-> statement,
                                   dialogue_type |-> dialogue_type,
                                   rounds |-> Rounds(selected_questions) ],
                    estimated_time |->
                        ToString(15 * Len(selected_questions)) \o " seconds minimum" ] ]

\* the names of the templates of generate_thought_experiments, in order
ExperimentTemplates ==
    << "Extreme Scaling", "Time Travel", "Alien Perspective",
       "Necessity Test", "Pure Essence" >>

\* generate_thought_experiments: selected is the ordered sample random.sample
\* draws from the templates (the set-up and question texts are left out)
generate_thought_experiments(concept, selected) ==
    [ i \in 1..Len(selected) |->
        [ number |-> i,
          name |-> ExperimentTemplates[selected[i]],
          concept |-> concept,
          exploration_time |-> "2-3 minutes" ] ]

generate_thought_experiment(T, concept, experiment_type, session_id, selected) ==
    [ sessions |->
          IF Tracked(T, session_id)
          THEN [T EXCEPT ![session_id.v].perspectives_considered =
                   Append(@, "Thought experiment: " \o concept)]
          ELSE T,
      ret |-> [ kind |-> "dict",
                concept |-> concept,
                experiments |-> generate_thought_experiments(concept, selected),
                total_time |-> "10-15 minutes for thorough exploration" ] ]

depth_levels ==
    << <<"Surface", "What's the obvious answer?">>,
       <<"Factual", "What facts and evidence apply?">>,
       <<"Analytical", "What patterns and relationships exist?">>,
       <<"Critical", "What assumptions and biases are present?">>,
       <<"Synthetic", "How do different perspectives integrate?">>,
       <<"Philosophical", "What fundamental principles are at play?">>,
       <<"Transcendent", "What lies beyond conventional understanding?">> >>

\* the announcement a rung makes of the level that follows it
Transition(level) ==
    "Now, let's go deeper. Take a breath and ascend to level "
        \o ToString(level) \o "..."

\* create_thinking_depth_ladder; i is the 0-based index of the loop
create_thinking_depth_ladder(question, max_rungs) ==
    LET levels == Slice(depth_levels, max_rungs)
        rungs == [ r \in 1..Len(levels) |->
                     LET i == r - 1
                     IN  [ level |-> i + 1,
                           name |-> levels[r][1],
                           prompt |-> levels[r][2] \o " (Regarding: " \o question \o ")",
                           thinking_time |-> ToString(15 * (i + 1)) \o " seconds",
                           transition |-> IF i < max_rungs - 1
                                          THEN Transition(i + 2) ELSE "" ] ]
    IN  [ kind |-> "dict",
          question |-> question,
          type |-> "thinking_depth_ladder",
          total_rungs |-> Len(rungs),
          rungs |-> rungs ]

thinking_depth_ladder(T, question, current_depth, target_depth, session_id) ==
    LET ladder == create_thinking_depth_ladder(question, target_depth)
    IN  [ sessions |->
              IF Tracked(T, session_id)
              THEN [T EXCEPT ![session_id.v].max_depth_reached = Max(@, target_depth)]
              ELSE T,
          ret |-> [ kind |-> "dict",
                    question |-> ladder.question,
                    type |-> ladder.type,
                    total_rungs |-> ladder.total_rungs,
                    rungs |-> ladder.rungs,
                    current_position |-> current_depth ] ]

MetaQuestion(level) ==
    IF level = 0 THEN "What's your response to the initial question?"
    ELSE IF level = 1 THEN "What questions does your answer raise?"
    ELSE IF level = 2 THEN "What's behind those questions?"
    ELSE "What fundamental mystery remains?"

\* create_recursive_questioning; range(recursion_depth) is empty when the
\* depth is zero or negative
create_recursive_questioning(initial_question, recursion_depth) ==
    [ kind |-> "dict",
      type |-> "recursive_questioning",
      initial_question |-> initial_question,
      depth |-> recursion_depth,
      branches |->
          [ b \in 1..Max(recursion_depth, 0) |->
              LET level == b - 1
              IN  [ level |-> level + 1,
                    meta_question |-> MetaQuestion(level),
                    exploration_time |-> ToString(20 * (level + 1)) \o " seconds" ] ] ]

\* a version that opens a session for an id the registry does not know
recursive_questioning_opens_session(T, initial_question, recursion_depth, session_id) ==
    LET structure == create_recursive_questioning(initial_question,
                                                  Min(recursion_depth, 5))
        opened == IF Truthy(session_id) /\ session_id.v \notin DOMAIN T
                  THEN Store(T, session_id.v,
                             ThinkingSession(session_id.v, initial_question, "DEEP"))
                  ELSE T
    IN  [ sessions |->
              IF Tracked(opened, session_id)
              THEN [opened EXCEPT ![session_id.v] =
                       [@ EXCEPT !.questions_explored = Append(@, initial_question),
                                 !.thought_count = @ + recursion_depth]]
              ELSE opened,
          ret |-> structure ]

recursive_questioning(T, initial_question, recursion_depth, session_id) ==
    LET structure == create_recursive_questioning(initial_question,
                                                  Min(recursion_depth, 5))
    IN  [ sessions |->
              IF Tracked(T, session_id)
              THEN [T EXCEPT ![session_id.v] =
                       [@ EXCEPT !.questions_explored = Append(@, initial_question),
                                 !.thought_count = @ + recursion_depth]]
              ELSE T,
          ret |-> structure ]

EXPANSION_TECHNIQUES ==
    [ analogical |-> "What is this similar to in other domains?",
      causal |-> "What causes this and what does it cause?",
      compositional |-> "What are the component parts and how do they interact?",
      temporal |-> "How does this change over time?",
      spatial |-> "How does context and environment affect this?",
      probabilistic |-> "What are the likelihood and uncertainties involved?",
      systemic |-> "How does this fit into larger systems?",
      evolutionary |-> "How did this come to be and where is it going?",
      dialectical |-> "What tensions and contradictions exist?",
      phenomenological |-> "What is the lived experience of this?" ]

TechniquePrompt(name) ==
    IF name \in DOMAIN EXPANSION_TECHNIQUES
    THEN EXPANSION_TECHNIQUES[name]
    ELSE "How does this connect to broader patterns?"

\* expand_thought: sample is the ordered sample of technique names that
\* random.sample draws; asking it for a negative number raises ValueError
expand_thought(T, thought, expansion_technique, num_expansions, session_id, sample) ==
    LET k == Min(num_expansions, Cardinality(DOMAIN EXPANSION_TECHNIQUES))
        selected_techniques ==
            IF expansion_technique = "random" THEN sample
            ELSE <<expansion_technique>>
        expansions ==
            [ i \in 1..Len(selected_techniques) |->
                [ technique |-> selected_techniques[i],
                  prompt |-> TechniquePrompt(selected_techniques[i]),
                  applied_to_thought |->
                      "Regarding '" \o thought \o "': "
                          \o TechniquePrompt(selected_techniques[i]),
                  exploration_time |-> "30-45 seconds" ] ]
    IN  IF expansion_technique = "random" /\ k < 0
        THEN [ sessions |-> T,
               ret |-> ErrorMapping("Sample larger than population or is negative") ]
        ELSE [ sessions |->
                   IF Tracked(T, session_id)
                   THEN [T EXCEPT ![session_id.v].perspectives_considered =
                            @ \o selected_techniques]
                   ELSE T,
               ret |-> [ kind |-> "dict",
                         original_thought |-> thought,
                         expansions |-> expansions,
                         instruction |->
                             "Don't just answer - really explore each expansion fully." ] ]

----------------------------------------------------------------------------
(* The registry as a state machine *)

\* no call remembered yet
NoCall ==
    [op |-> "init", args |-> [at |-> 0], ret |-> NoneValue,
     sessions |-> EmptyRegistry, at |-> 0]

Callers == {1, 2}

\* both callers before their first statement, holding nothing
NoCallers ==
    [ pc   |-> [c \in Callers |-> "idle"],
      held |-> [c \in Callers |-> 0],
      lost |-> EmptyRegistry ]

Init ==
    /\ SESSIONS = EmptyRegistry
    /\ now = 0
    /\ nextOid = 1
    /\ op = "init"
    /\ args = [at |-> 0]
    /\ ret = NoneValue
    /\ pre = EmptyRegistry
    /\ streak = <<>>
    /\ THINKING_SESSIONS = EmptyRegistry
    /\ memo = NoCall
    /\ callers = NoCallers

Allocated(S) == IF DOMAIN S = {} THEN 0 ELSE
    LET oids == {S[k].oid : k \in DOMAIN S}
    IN  CHOOSE m \in oids : \A n \in oids : n <= m

\* the allocator moves past every object the call created
Bump(S) == IF Allocated(S) >= nextOid THEN Allocated(S) + 1 ELSE nextOid

\* what one sweep call did: how many records it found and deleted, and the
\* latest last_update among the records it found (-1 when there were none)
Freshest(S) ==
    IF DOMAIN S = {} THEN -1 ELSE
    LET ts == {S[k].last_update : k \in DOMAIN S}
    IN  CHOOSE m \in ts : \A n \in ts : n <= m

SweepRecord(before, after, hours, t) ==
    [ hours    |-> hours,
      at       |-> t,
      found    |-> Cardinality(DOMAIN before),
      deleted  |-> Cardinality(DOMAIN before) - Cardinality(DOMAIN after),
      freshest |-> Freshest(before) ]

LastTwo(q) == IF Len(q) > 2 THEN SubSeq(q, Len(q) - 1, Len(q)) ELSE q

\* the clock advances between operations
Tick ==
    /\ now < MaxTime
    /\ now' = now + 1
    /\ UNCHANGED <<SESSIONS, nextOid, op, args, ret, pre, streak,
                   THINKING_SESSIONS, memo, callers>>

GetSessionOn(ids) ==
    \E sid \in ids :
        /\ sid \in DOMAIN SESSIONS \/ nextOid <= MaxObjects
        /\ SESSIONS' = get_session(SESSIONS, sid, now, nextOid)
        /\ nextOid' = Bump(SESSIONS')
        /\ op' = "get_session"
        /\ args' = [session_id |-> sid, at |-> now]
        /\ ret' = [kind |-> "AgentSession", oid |-> SESSIONS'[sid].oid]
        /\ pre' = SESSIONS
        /\ streak' = <<>>
        /\ UNCHANGED <<now, THINKING_SESSIONS, memo, callers>>

StartSessionWith(ids, problems) ==
    \E sid \in ids, problem \in problems :
        LET r == start_session(SESSIONS, sid, problem, now, nextOid)
        IN  /\ r.sessions = SESSIONS \/ strip(sid) \in DOMAIN SESSIONS
                    \/ nextOid <= MaxObjects
            /\ SESSIONS' = r.sessions
            /\ nextOid' = Bump(SESSIONS')
            /\ op' = "start_session"
            /\ args' = [session_id |-> sid, initial_problem |-> problem, at |-> now]
            /\ ret' = r.ret
            /\ pre' = SESSIONS
            /\ streak' = <<>>
            /\ UNCHANGED <<now, THINKING_SESSIONS, memo, callers>>

StartSessionOn(ids) == StartSessionWith(ids, ProblemInputs)

UpdateStateTo(states) ==
    \E sid \in DOMAIN SESSIONS, s \in states :
        /\ SESSIONS' = [SESSIONS EXCEPT ![sid] = update_state(@, s, now)]
        /\ op' = "update_state"
        /\ args' = [session_id |-> sid, new_state |-> s, at |-> now]
        /\ ret' = NoneValue
        /\ pre' = SESSIONS
        /\ streak' = <<>>
        /\ UNCHANGED <<now, nextOid, THINKING_SESSIONS, memo, callers>>

AddInterventionWith(interventions, n) ==
    \E sid \in DOMAIN SESSIONS, i \in interventions :
        /\ Len(SESSIONS[sid].interventions_tried) < n
        /\ SESSIONS' = [SESSIONS EXCEPT ![sid] = add_intervention(@, i, now)]
        /\ op' = "add_intervention"
        /\ args' = [session_id |-> sid, intervention |-> i, at |-> now]
        /\ ret' = NoneValue
        /\ pre' = SESSIONS
        /\ streak' = <<>>
        /\ UNCHANGED <<now, nextOid, THINKING_SESSIONS, memo, callers>>

AddProgressWith(indicators, n) ==
    \E sid \in DOMAIN SESSIONS, i \in indicators :
        /\ Len(SESSIONS[sid].progress_indicators) < n
        /\ SESSIONS' = [SESSIONS EXCEPT ![sid] = add_progress(@, i, now)]
        /\ op' = "add_progress"
        /\ args' = [session_id |-> sid, indicator |-> i, at |-> now]
        /\ ret' = NoneValue
        /\ pre' = SESSIONS
        /\ streak' = <<>>
        /\ UNCHANGED <<now, nextOid, THINKING_SESSIONS, memo, callers>>

\* the frustration log has no method: its callers extend the list in place
ExtendFrustrationWith(extensions) ==
    \E sid \in DOMAIN SESSIONS, levels \in extensions :
        /\ Len(SESSIONS[sid].frustration_history) + Len(levels) <= MaxLog
        /\ SESSIONS' = [SESSIONS EXCEPT ![sid].frustration_history = @ \o levels]
        /\ op' = "extend_frustration"
        /\ args' = [session_id |-> sid, levels |-> levels, at |-> now]
        /\ ret' = NoneValue
        /\ pre' = SESSIONS
        /\ streak' = <<>>
        /\ UNCHANGED <<now, nextOid, THINKING_SESSIONS, memo, callers>>

CleanOldSessions ==
    \E hours \in HoursInputs :
        LET r == clean_old_sessions(SESSIONS, hours, now)
        IN  /\ SESSIONS' = r.sessions
            /\ op' = "clean_old_sessions"
            /\ args' = [hours |-> hours, at |-> now]
            /\ ret' = r.ret
            /\ pre' = SESSIONS
            /\ streak' = LastTwo(Append(streak, SweepRecord(SESSIONS, r.sessions, hours, now)))
            /\ UNCHANGED <<now, nextOid, THINKING_SESSIONS, memo, callers>>

GetSession == GetSessionOn(RegistryIds)

StartSession == StartSessionOn(SessionIdInputs)

\* The registry with two ids, created, restarted and swept
Next ==
    \/ Tick
    \/ GetSession
    \/ StartSession
    \/ CleanOldSessions

Spec == Init /\ [][Next]_vars

UpdateState == UpdateStateTo(SessionState)

AddIntervention == AddInterventionWith(InterventionInputs, MaxLog)

AddProgress == AddProgressWith(ProgressInputs, MaxLog)

\* One session and the methods that mutate it
GetOneSession == GetSessionOn(OneId)

StartOneSession == StartSessionOn(OneIdInputs)

NextSession ==
    \/ Tick
    \/ GetOneSession
    \/ StartOneSession
    \/ UpdateState
    \/ AddIntervention
    \/ AddProgress

SpecSession == Init /\ [][NextSession]_vars

StartRecord == StartSessionWith({"a"}, {"p", " q "})

\* One session and its logs as they grow
AddInterventionLong == AddInterventionWith(InterventionInputs, MaxLongLog)

AddProgressLong == AddProgressWith(ProgressInputs, MaxLongLog)

NextLogs ==
    \/ Tick
    \/ GetOneSession
    \/ StartRecord
    \/ AddInterventionLong
    \/ AddProgressLong

SpecLogs == Init /\ [][NextLogs]_vars

----------------------------------------------------------------------------
(* The content tools as operations: they read no state and write none *)

PatternInputs ==
    { "error_loop appeared again", "stuck in a loop", "overwhelmed by errors",
      "too complex", "unclear and confusing", "confused about the choice",
      "indecisive", "too many choices", "Error", "stuck" }

AttemptedInputs ==
    { PyNone,
      PyList(<<>>),
      PyList(<<PyStr("a")>>),
      PyList(<<PyStr("a"), PyStr("b")>>),
      PyList(<<PyStr("a"), PyStr("b"), PyStr("c")>>),
      PyStr("[\"a\", \"b\", \"c\"]"),
      PyStr("[]"),
      PyStr("not json"),
      PyStr("5"),
      PyStr("\"abcd\""),
      PyStr("null") }

ErrorMessageInputs ==
    { PyNone,
      PyList(<<PyStr("KeyError: x")>>),
      PyStr("[\"KeyError: x\"]"),
      PyStr("oops"),
      PyStr("5") }

LevelInputs ==
    { PyInt(0), PyInt(1), PyInt(5), PyInt(7), PyInt(8), PyInt(10), PyInt(11),
      PyInt(15), PyInt(0 - 3) }

TriggerInputs == {"", "   ", "x", "Same error again"}

TimeOnTaskInputs ==
    { PyNone, PyInt(0), PyInt(30), PyInt(31), PyInt(60), PyInt(61), PyInt(90),
      PyStr(""), PyStr("45"), PyStr(" 90 "), PyStr("abc"), PyStr("4.5") }

ProgressMadeInputs ==
    { PyBool(TRUE), PyBool(FALSE), PyStr("true"), PyStr("True"), PyStr("yes") }

\* a pure tool call: only the record of the last operation changes
Called(name, a, r) ==
    /\ op' = name
    /\ args' = a
    /\ ret' = r
    /\ pre' = SESSIONS
    /\ streak' = <<>>

AnalyzeStuckPatternOn(patterns, attempts, errors) ==
    \E p \in patterns, a \in attempts, e \in errors :
        /\ Called("analyze_stuck_pattern",
                  [ current_situation |-> "Trying to fix the build",
                    stuck_pattern |-> p,
                    attempted_solutions |-> a,
                    error_messages |-> e ],
                  analyze_stuck_pattern("Trying to fix the build", p, a, e))
        /\ UNCHANGED <<SESSIONS, now, nextOid, THINKING_SESSIONS, memo, callers>>

\* a tool that files the level in the frustration log of the open sessions
RegulateFrustrationRecording(levels, triggers) ==
    \E l \in levels, tr \in triggers :
        /\ Called("regulate_frustration",
                  [frustration_level |-> l, trigger |-> tr],
                  regulate_frustration(l, tr))
        /\ SESSIONS' = [k \in DOMAIN SESSIONS |->
               IF SESSIONS[k].frustration_history = <<>>
               THEN [SESSIONS[k] EXCEPT !.frustration_history = <<l.v>>]
               ELSE SESSIONS[k]]
        /\ UNCHANGED <<now, nextOid, THINKING_SESSIONS, memo, callers>>

RegulateFrustrationOn(levels, triggers) ==
    \E l \in levels, tr \in triggers :
        /\ Called("regulate_frustration",
                  [frustration_level |-> l, trigger |-> tr],
                  regulate_frustration(l, tr))
        /\ UNCHANGED <<SESSIONS, now, nextOid, THINKING_SESSIONS, memo, callers>>

WellnessCheckOn(times, progress) ==
    \E m \in times, pm \in progress :
        /\ Called("wellness_check",
                  [ current_task |-> "Optimizing a function",
                    time_on_task |-> m,
                    progress_made |-> pm ],
                  wellness_check("Optimizing a function", m, pm))
        /\ UNCHANGED <<SESSIONS, now, nextOid, THINKING_SESSIONS, memo, callers>>

ThoughtInputs == {"I'll never solve this", "Everything is broken"}
ContextInputs == {PyNone, PyStr(""), PyStr("Third failed deploy")}

ObstacleInputs ==
    { PyNone,
      PyList(<<>>),
      PyList(<<PyStr("Complexity of the codebase"), PyStr("perfectionism")>>),
      PyList(<<PyStr("uncertainty")>>),
      PyStr("[\"too much uncertainty\", \"Perfect is the goal\"]"),
      PyStr("complexity"),
      PyStr("\"perfect\""),
      PyStr("7"),
      PyStr("[1, 2]") }

TimePressureInputs == {PyBool(TRUE), PyBool(FALSE)}

ReframeThoughtOn(thoughts, contexts) ==
    \E th \in thoughts, c \in contexts :
        /\ Called("reframe_thought",
                  [negative_thought |-> th, context |-> c],
                  reframe_thought(th, c))
        /\ UNCHANGED <<SESSIONS, now, nextOid, THINKING_SESSIONS, memo, callers>>

CreateActionPlanOn(obstacles, pressures) ==
    \E o \in obstacles, tp \in pressures :
        /\ Called("create_action_plan",
                  [ goal |-> "Ship the parser",
                    obstacles |-> o,
                    time_pressure |-> tp ],
                  create_action_plan("Ship the parser", o, tp))
        /\ UNCHANGED <<SESSIONS, now, nextOid, THINKING_SESSIONS, memo, callers>>

AnalyzeStuckPattern ==
    AnalyzeStuckPatternOn(PatternInputs, AttemptedInputs, ErrorMessageInputs)

ReframeThought == ReframeThoughtOn(ThoughtInputs, ContextInputs)

CreateActionPlan == CreateActionPlanOn(ObstacleInputs, TimePressureInputs)

RegulateFrustration == RegulateFrustrationOn(LevelInputs, TriggerInputs)

WellnessCheck == WellnessCheckOn(TimeOnTaskInputs, ProgressMadeInputs)

NextContent ==
    \/ AnalyzeStuckPattern
    \/ ReframeThought
    \/ CreateActionPlan
    \/ RegulateFrustration
    \/ WellnessCheck

SpecContent == Init /\ [][NextContent]_vars

----------------------------------------------------------------------------
(* The public tools of the CBT server called in any order on one session:  *)
(* start_session and the five content tools, on a few inputs each.  One    *)
(* content-tool call is remembered for comparison with later ones.         *)

ContentTools ==
    { "analyze_stuck_pattern", "reframe_thought", "create_action_plan",
      "regulate_frustration", "wellness_check" }

AnalyzeTool ==
    AnalyzeStuckPatternOn({"stuck in a loop"},
                          {PyList(<<>>), PyStr("[\"a\", \"b\", \"c\"]")},
                          {PyList(<<PyStr("KeyError: x")>>)})

ReframeTool == ReframeThoughtOn({"Everything is broken"}, {PyNone, PyStr("Third failed deploy")})

PlanTool == CreateActionPlanOn({PyNone, PyList(<<PyStr("uncertainty")>>)}, {PyBool(TRUE)})

RegulateTool == RegulateFrustrationOn({PyInt(5), PyInt(8)}, {"Same error again"})

WellnessTool == WellnessCheckOn({PyStr("45"), PyStr("abc")}, {PyBool(TRUE), PyBool(FALSE)})

\* the call just made is the one kept for comparison
Remember ==
    /\ op \in ContentTools
    /\ memo = NoCall
    /\ memo' = [op |-> op, args |-> args, ret |-> ret,
                sessions |-> SESSIONS, at |-> now]
    /\ UNCHANGED <<SESSIONS, now, nextOid, op, args, ret, pre, streak,
                   THINKING_SESSIONS, callers>>

NextTools ==
    \/ Tick
    \/ StartRecord
    \/ AnalyzeTool
    \/ ReframeTool
    \/ PlanTool
    \/ RegulateTool
    \/ WellnessTool
    \/ Remember

SpecTools == Init /\ [][NextTools]_vars

----------------------------------------------------------------------------
(* The session record under every operation that can reach it *)

\* One session and everything that writes to it
SetState == UpdateStateTo({"INITIAL", "IMPROVING"})

NoteIntervention == AddInterventionWith({"analyze_stuck_pattern"}, MaxLog)

NoteProgress == AddProgressWith({"Made first attempt"}, MaxLog)

NoteFrustration == ExtendFrustrationWith({<<7>>})

AnalyzeOnce == AnalyzeStuckPatternOn({"stuck in a loop"}, {PyList(<<>>)}, {PyNone})

ReframeOnce == ReframeThoughtOn({"Everything is broken"}, {PyNone})

PlanOnce == CreateActionPlanOn({PyNone}, {PyBool(FALSE)})

RegulateOnce == RegulateFrustrationOn({PyInt(8)}, {"Same error again"})

WellnessOnce == WellnessCheckOn({PyInt(45)}, {PyBool(FALSE)})

NextRecord ==
    \/ Tick
    \/ GetOneSession
    \/ StartRecord
    \/ SetState
    \/ NoteIntervention
    \/ NoteProgress
    \/ NoteFrustration
    \/ CleanOldSessions
    \/ AnalyzeOnce
    \/ ReframeOnce
    \/ PlanOnce
    \/ RegulateOnce
    \/ WellnessOnce

SpecRecord == Init /\ [][NextRecord]_vars

----------------------------------------------------------------------------
(* The deep-thinking tools as operations on THINKING_SESSIONS *)

TopicInputs == {"free will", "caching"}
DepthInputs == {"deep", "Profound", "surface", "bottomless", ""}
ThinkingIdInputs == {PyNone, PyStr(""), PyStr("t1")}
SummaryIdInputs == {"t1", "think_0", "nope"}
CheckTypeInputs == {"depth_assessment", "process_reflection", "vibes"}

\* a deep-thinking tool call: pre remembers the thinking registry it found
CalledThinking(name, a, r) ==
    /\ op' = name
    /\ args' = a
    /\ ret' = r
    /\ pre' = THINKING_SESSIONS
    /\ streak' = <<>>

InitiateDeepThinkingOn(topics, depths, ids, choices) ==
    \E topic \in topics, d \in depths, sid \in ids, choice \in choices :
        LET r == initiate_deep_thinking(THINKING_SESSIONS, topic, d, sid, now, choice)
        IN  /\ THINKING_SESSIONS' = r.sessions
            /\ CalledThinking("initiate_deep_thinking",
                              [topic |-> topic, desired_depth |-> d, session_id |-> sid],
                              r.ret)
            /\ UNCHANGED <<SESSIONS, now, nextOid, memo, callers>>

InitiateDeepThinking ==
    InitiateDeepThinkingOn(TopicInputs, DepthInputs, ThinkingIdInputs,
                           1..Len(METACOGNITIVE_PROMPTS.thinking_about_thinking))

MetacognitiveCheck ==
    \E c \in CheckTypeInputs, sid \in ThinkingIdInputs \cup {PyStr("think_0")} :
        /\ CalledThinking("metacognitive_check",
                          [ current_thinking |-> "Going in circles",
                            check_type |-> c,
                            session_id |-> sid ],
                          metacognitive_check(THINKING_SESSIONS, "Going in circles", c, sid))
        /\ UNCHANGED <<SESSIONS, now, nextOid, THINKING_SESSIONS, memo, callers>>

ThinkingSessionSummary ==
    \E sid \in SummaryIdInputs :
        /\ CalledThinking("thinking_session_summary",
                          [session_id |-> sid],
                          thinking_session_summary(THINKING_SESSIONS, sid))
        /\ UNCHANGED <<SESSIONS, now, nextOid, THINKING_SESSIONS, memo, callers>>

NextThinking ==
    \/ InitiateDeepThinking
    \/ MetacognitiveCheck
    \/ ThinkingSessionSummary

SpecThinking == Init /\ [][NextThinking]_vars

----------------------------------------------------------------------------
(* The questioning tools as operations on THINKING_SESSIONS *)

\* the logs and the counter of every thinking session stay within the bounds
Bounded(T, cap) ==
    \A k \in DOMAIN T :
        /\ Len(T[k].questions_explored) <= cap
        /\ Len(T[k].perspectives_considered) <= cap
        /\ T[k].thought_count <= MaxThoughts
        /\ T[k].thought_count >= 0 - MaxThoughts

\* the picks random.sample makes from the five chains that are explored
SamplePicks == { <<1, 1, 1, 1, 1>>, <<7, 3, 2, 5, 4>> }

SocraticDialogueOn(types, depths, ids, cap) ==
    \E ty \in types, d \in depths, sid \in ids, picks \in SamplePicks :
        LET r == socratic_dialogue(THINKING_SESSIONS, "Caching is the bottleneck",
                                   ty, d, sid, picks)
        IN  /\ Bounded(r.sessions, cap)
            /\ THINKING_SESSIONS' = r.sessions
            /\ CalledThinking("socratic_dialogue",
                              [ statement |-> "Caching is the bottleneck",
                                dialogue_type |-> ty,
                                depth_level |-> d,
                                session_id |-> sid ],
                              r.ret)
            /\ UNCHANGED <<SESSIONS, now, nextOid, memo, callers>>

\* the ordered samples of three templates that are explored
TemplateSamples == { <<1, 2, 3>>, <<5, 3, 1>> }

GenerateThoughtExperimentOn(concepts, ids, cap) ==
    \E c \in concepts, sid \in ids, selected \in TemplateSamples :
        LET r == generate_thought_experiment(THINKING_SESSIONS, c, PyNone, sid, selected)
        IN  /\ Bounded(r.sessions, cap)
            /\ THINKING_SESSIONS' = r.sessions
            /\ CalledThinking("generate_thought_experiment",
                              [concept |-> c, experiment_type |-> PyNone, session_id |-> sid],
                              r.ret)
            /\ UNCHANGED <<SESSIONS, now, nextOid, memo, callers>>

ThinkingDepthLadderOn(questions, currents, targets, ids) ==
    \E q \in questions, cur \in currents, target \in targets, sid \in ids :
        LET r == thinking_depth_ladder(THINKING_SESSIONS, q, cur, target, sid)
        IN  /\ THINKING_SESSIONS' = r.sessions
            /\ CalledThinking("thinking_depth_ladder",
                              [ question |-> q,
                                current_depth |-> cur,
                                target_depth |-> target,
                                session_id |-> sid ],
                              r.ret)
            /\ UNCHANGED <<SESSIONS, now, nextOid, memo, callers>>

RecursiveQuestioningOn(questions, depths, ids, cap) ==
    \E q \in questions, d \in depths, sid \in ids :
        LET r == recursive_questioning(THINKING_SESSIONS, q, d, sid)
        IN  /\ Bounded(r.sessions, cap)
            /\ THINKING_SESSIONS' = r.sessions
            /\ CalledThinking("recursive_questioning",
                              [initial_question |-> q, recursion_depth |-> d, session_id |-> sid],
                              r.ret)
            /\ UNCHANGED <<SESSIONS, now, nextOid, memo, callers>>

\* the ordered samples of techniques that are explored, by length
TechniqueSamples == { <<>>, <<"causal", "temporal">>, <<"systemic", "causal">> }

ExpandThoughtOn(techniques, nums, ids, cap) ==
    \E te \in techniques, n \in nums, sid \in ids, sample \in TechniqueSamples :
        LET r == expand_thought(THINKING_SESSIONS, "The cache is stale", te, n, sid, sample)
        IN  /\ Len(sample) = IF te = "random" /\ n >= 0
                              THEN Min(n, Cardinality(DOMAIN EXPANSION_TECHNIQUES))
                              ELSE 0
            /\ Bounded(r.sessions, cap)
            /\ THINKING_SESSIONS' = r.sessions
            /\ CalledThinking("expand_thought",
                              [ thought |-> "The cache is stale",
                                expansion_technique |-> te,
                                num_expansions |-> n,
                                session_id |-> sid ],
                              r.ret)
            /\ UNCHANGED <<SESSIONS, now, nextOid, memo, callers>>

MetacognitiveCheckOn(types, ids) ==
    \E c \in types, sid \in ids :
        /\ CalledThinking("metacognitive_check",
                          [ current_thinking |-> "Going in circles",
                            check_type |-> c,
                            session_id |-> sid ],
                          metacognitive_check(THINKING_SESSIONS, "Going in circles", c, sid))
        /\ UNCHANGED <<SESSIONS, now, nextOid, THINKING_SESSIONS, memo, callers>>

\* ids of the tracking tools: none, a session that may exist, one that never does
TrackingIds == {PyNone, PyStr("t1"), PyStr("nope")}

BeginThinking ==
    InitiateDeepThinkingOn({"free will", "caching"}, {"deep", "bottomless"},
                           {PyNone, PyStr("t1")}, {1})

SocraticOnce == SocraticDialogueOn({"depth_drilling"}, {2}, TrackingIds, MaxNotes)

ExperimentOnce == GenerateThoughtExperimentOn({"caching"}, TrackingIds, MaxNotes)

LadderOnce == ThinkingDepthLadderOn({"Why is it slow?"}, {1}, {4}, TrackingIds)

RecursiveOnce ==
    RecursiveQuestioningOn({"Why is it slow?"}, {2},
                           TrackingIds \cup {PyStr("think_0")}, MaxNotes)

ExpandOnce == ExpandThoughtOn({"causal", "random"}, {2, 0 - 1}, TrackingIds, MaxNotes)

CheckOnce == MetacognitiveCheckOn({"depth_assessment"}, TrackingIds)

NextTracking ==
    \/ BeginThinking
    \/ SocraticOnce
    \/ ExperimentOnce
    \/ LadderOnce
    \/ RecursiveOnce
    \/ ExpandOnce
    \/ CheckOnce
    \/ ThinkingSessionSummary

SpecTracking == Init /\ [][NextTracking]_vars

----------------------------------------------------------------------------
(* One questioning tool at a time on one tracked session *)

QuestioningIds == {PyNone, PyStr("t1")}

BeginTracked == InitiateDeepThinkingOn({"caching"}, {"deep"}, {PyStr("t1")}, {1})

DialogueTypeInputs == {"depth_drilling", "free_form"}
DepthLevelInputs == {0 - 2, 0, 3, 7, 9}

SocraticDialogue ==
    SocraticDialogueOn(DialogueTypeInputs, DepthLevelInputs, QuestioningIds, MaxRounds)

NextSocratic ==
    \/ BeginTracked
    \/ SocraticDialogue

SpecSocratic == Init /\ [][NextSocratic]_vars

RecursionDepthInputs == {0 - 2, 0, 3, 5, 8}

RecursiveQuestioning ==
    RecursiveQuestioningOn({"Why is it slow?"}, RecursionDepthInputs,
                           QuestioningIds, MaxRounds)

NextRecursive ==
    \/ BeginTracked
    \/ RecursiveQuestioning

SpecRecursive == Init /\ [][NextRecursive]_vars

LadderQuestionInputs == {"Why is it slow?", "What is a cache?"}
CurrentDepthInputs == {1, 2}
TargetDepthInputs == {0 - 2, 0, 3, 7, 8}

ThinkingDepthLadder ==
    ThinkingDepthLadderOn(LadderQuestionInputs, CurrentDepthInputs,
                          TargetDepthInputs, QuestioningIds)

NextLadder ==
    \/ BeginTracked
    \/ ThinkingDepthLadder

SpecLadder == Init /\ [][NextLadder]_vars

----------------------------------------------------------------------------
(* Two callers running get_session and add_intervention on the same id,   *)
(* interleaved statement by statement                                      *)

RaceId == "a"
RaceInterventions == [c \in Callers |-> IF c = 1 THEN "analyze_stuck_pattern"
                                                 ELSE "reframe_thought"]

At(c, label) == callers.pc[c] = label

Goto(c, label) == [callers.pc EXCEPT ![c] = label]

\* the history of a statement executed by caller c
Stepped(name, c, r) ==
    /\ op' = name
    /\ args' = [caller |-> c, session_id |-> RaceId, at |-> now]
    /\ ret' = r
    /\ pre' = SESSIONS
    /\ streak' = <<>>

\* `if session_id not in SESSIONS:`
TestAbsent(c) ==
    /\ At(c, "idle")
    /\ callers' = [callers EXCEPT
           !.pc = Goto(c, IF RaceId \notin DOMAIN SESSIONS THEN "create" ELSE "return")]
    /\ Stepped("get_session:test", c, [kind |-> "bool", value |-> RaceId \notin DOMAIN SESSIONS])
    /\ UNCHANGED <<SESSIONS, now, nextOid, THINKING_SESSIONS, memo>>

\* `SESSIONS[session_id] = AgentSession(...)`: the record that was stored
\* under the id, if any, is no longer reachable from the registry
CreateAndStore(c) ==
    /\ At(c, "create")
    /\ nextOid <= MaxObjects
    /\ SESSIONS' = create_session(SESSIONS, RaceId, now, nextOid)
    /\ nextOid' = nextOid + 1
    /\ callers' = [callers EXCEPT
           !.pc = Goto(c, "return"),
           !.lost = IF RaceId \in DOMAIN SESSIONS
                       /\ SESSIONS'[RaceId].oid # SESSIONS[RaceId].oid
                    THEN Store(@, SESSIONS[RaceId].oid, SESSIONS[RaceId])
                    ELSE @]
    /\ Stepped("get_session:store", c, [kind |-> "AgentSession", oid |-> nextOid])
    /\ UNCHANGED <<now, THINKING_SESSIONS, memo>>

\* `return SESSIONS.get(session_id)`
ReturnStored(c) ==
    /\ At(c, "return")
    /\ callers' = [callers EXCEPT
           !.pc = Goto(c, "append"),
           !.held = [@ EXCEPT ![c] = SESSIONS[RaceId].oid]]
    /\ Stepped("get_session:return", c,
               [kind |-> "AgentSession", oid |-> SESSIONS[RaceId].oid])
    /\ UNCHANGED <<SESSIONS, now, nextOid, THINKING_SESSIONS, memo>>

\* the record the caller holds: the stored one or one that was overwritten
Held(c) ==
    IF SESSIONS[RaceId].oid = callers.held[c]
    THEN SESSIONS[RaceId]
    ELSE callers.lost[callers.held[c]]

\* a statement of add_intervention leaves that record as `session`
WriteHeld(c, session, label) ==
    IF SESSIONS[RaceId].oid = callers.held[c]
    THEN /\ SESSIONS' = [SESSIONS EXCEPT ![RaceId] = session]
         /\ callers' = [callers EXCEPT !.pc = Goto(c, label)]
    ELSE /\ SESSIONS' = SESSIONS
         /\ callers' = [callers EXCEPT
                !.pc = Goto(c, label),
                !.lost = [@ EXCEPT ![callers.held[c]] = session]]

\* `self.interventions_tried.append(intervention)`
AppendIntervention(c) ==
    /\ At(c, "append")
    /\ WriteHeld(c, [Held(c) EXCEPT !.interventions_tried = Append(@, RaceInterventions[c])],
                 "touch")
    /\ Stepped("add_intervention:append", c, NoneValue)
    /\ UNCHANGED <<now, nextOid, THINKING_SESSIONS, memo>>

\* `self.last_update = datetime.now()`
TouchRecord(c) ==
    /\ At(c, "touch")
    /\ WriteHeld(c, [Held(c) EXCEPT !.last_update = now], "done")
    /\ Stepped("add_intervention:touch", c, NoneValue)
    /\ UNCHANGED <<now, nextOid, THINKING_SESSIONS, memo>>

NextRace ==
    \/ Tick
    \/ \E c \in Callers : TestAbsent(c)
    \/ \E c \in Callers : CreateAndStore(c)
    \/ \E c \in Callers : ReturnStored(c)
    \/ \E c \in Callers : AppendIntervention(c)
    \/ \E c \in Callers : TouchRecord(c)

SpecRace == Init /\ [][NextRace]_vars

----------------------------------------------------------------------------
(* Properties of the session registry *)

IsErrorMapping(r) ==
    /\ r.kind = "dict"
    /\ DOMAIN r = {"kind", "error", "status"}
    /\ r.status = "failed"

Validates(value) == value # "" /\ strip(value) # ""

\* C1: calling get_session twice with the same id, with no sweep removing
\* it in between, returns the same record: the second call neither creates
\* a new record nor resets a field changed in between, and the record the
\* very first call returns has state INITIAL.
C1_GetSessionReturnsSameRecord ==
    op = "get_session" =>
        LET sid == args.session_id
        IN  /\ sid \in DOMAIN SESSIONS
            /\ ret.oid = SESSIONS[sid].oid
            /\ sid \in DOMAIN pre =>
                   /\ SESSIONS = pre
                   /\ ret.oid = pre[sid].oid
            /\ sid \notin DOMAIN pre =>
                   /\ SESSIONS[sid].state = "INITIAL"
                   /\ \A k \in DOMAIN pre : ret.oid # pre[k].oid

\* a second get_session on a record that start_session changed in between
C1_Witness ==
    /\ op = "get_session"
    /\ args.session_id \in DOMAIN pre
    /\ pre[args.session_id].state = "IN_PROGRESS"
    /\ pre[args.session_id].primary_issue # ""
    /\ ret.oid = pre[args.session_id].oid

\* C2: each id maps to at most one record, no record is stored under two
\* ids, every record's session_id equals its key, and a record created by
\* first access has state INITIAL, an empty primary issue and empty logs.
C2_RegistryWellFormed ==
    /\ \A k \in DOMAIN SESSIONS : SESSIONS[k].session_id = k
    /\ \A k1, k2 \in DOMAIN SESSIONS :
           SESSIONS[k1].oid = SESSIONS[k2].oid => k1 = k2
    /\ (op = "get_session" /\ args.session_id \notin DOMAIN pre) =>
           LET s == SESSIONS[args.session_id]
           IN  /\ s.state = "INITIAL"
               /\ s.primary_issue = ""
               /\ s.interventions_tried = <<>>
               /\ s.progress_indicators = <<>>
               /\ s.frustration_history = <<>>

\* a first access that adds a second record to the registry
C2_Witness ==
    /\ op = "get_session"
    /\ args.session_id \notin DOMAIN pre
    /\ Cardinality(DOMAIN SESSIONS) = 2

\* C3 as stated: after start_session(id, text) with non-empty arguments the
\* session stored under id is IN_PROGRESS with primary_issue equal to text,
\* and a repeated start leaves the three logs as they were.
C3_StartSessionStoresTextAsGiven ==
    (/\ op = "start_session"
     /\ Validates(args.session_id)
     /\ Validates(args.initial_problem)) =>
        LET sid == args.session_id
        IN  /\ sid \in DOMAIN SESSIONS
            /\ SESSIONS[sid].state = "IN_PROGRESS"
            /\ SESSIONS[sid].primary_issue = args.initial_problem
            /\ sid \in DOMAIN pre =>
                   /\ SESSIONS[sid].interventions_tried = pre[sid].interventions_tried
                   /\ SESSIONS[sid].progress_indicators = pre[sid].progress_indicators
                   /\ SESSIONS[sid].frustration_history = pre[sid].frustration_history

\* C3 as amended: the session is the one stored under the trimmed id and
\* its primary_issue is the trimmed text; a repeated start overwrites the
\* primary issue and leaves the three logs as they were.
C3_StartSessionStoresTrimmedText ==
    (/\ op = "start_session"
     /\ Validates(args.session_id)
     /\ Validates(args.initial_problem)) =>
        LET sid == strip(args.session_id)
        IN  /\ sid \in DOMAIN SESSIONS
            /\ ret.kind = "dict" /\ ret.status = "session_started"
            /\ SESSIONS[sid].state = "IN_PROGRESS"
            /\ SESSIONS[sid].primary_issue = strip(args.initial_problem)
            /\ sid \in DOMAIN pre =>
                   /\ SESSIONS[sid].interventions_tried = pre[sid].interventions_tried
                   /\ SESSIONS[sid].progress_indicators = pre[sid].progress_indicators
                   /\ SESSIONS[sid].frustration_history = pre[sid].frustration_history
                   /\ SESSIONS[sid].oid = pre[sid].oid

\* a second start with a different text on a session whose logs are not empty
C3_Witness ==
    /\ op = "start_session"
    /\ ret.status = "session_started"
    /\ strip(args.session_id) \in DOMAIN pre
    /\ LET was == pre[strip(args.session_id)]
       IN  /\ was.primary_issue # ""
           /\ was.primary_issue # strip(args.initial_problem)
           /\ was.interventions_tried # <<>>
           /\ was.progress_indicators # <<>>
           /\ SESSIONS[strip(args.session_id)].primary_issue
                  = strip(args.initial_problem)

\* C4: start_session with an empty or whitespace-only session_id or
\* initial_problem returns the error mapping and leaves the registry as it
\* was: no record created, no record modified.
C4_StartSessionRejectsEmpty ==
    (/\ op = "start_session"
     /\ ~Validates(args.session_id) \/ ~Validates(args.initial_problem)) =>
        /\ IsErrorMapping(ret)
        /\ SESSIONS = pre

\* a valid id that names no record yet, with a whitespace-only problem text
C4_Witness ==
    /\ op = "start_session"
    /\ Validates(args.session_id)
    /\ args.initial_problem = "  "
    /\ strip(args.session_id) \notin DOMAIN pre
    /\ DOMAIN pre # {}
    /\ IsErrorMapping(ret)

Stale(S, hours, t) == {k \in DOMAIN S : S[k].last_update < t - hours}

TwoSweepsOfZero ==
    /\ op = "clean_old_sessions"
    /\ Len(streak) = 2
    /\ streak[1].hours = 0
    /\ streak[2].hours = 0

----------------------------------------------------------------------------
(* Properties of the tools *)

\* C5: regulate_frustration is rejected as a validation failure, returning
\* the error mapping instead of a content bundle, whenever frustration_level
\* is not an integer in 1..10 and whenever trigger is empty or
\* whitespace-only.
C5_RegulateFrustrationRejectsInvalid ==
    (/\ op = "regulate_frustration"
     /\ \/ validate_frustration_level(args.frustration_level).kind = "raise"
        \/ ~Validates(args.trigger)) =>
        IsErrorMapping(ret)

\* C6: every public operation returns a mapping for every input, its result
\* or the error mapping, and never lets a raw fault reach the caller.
C6_OperationsNeverRaise ==
    op \in {"analyze_stuck_pattern", "regulate_frustration", "wellness_check"} =>
        ret.kind = "dict"

JSONTypes == {"NoneType", "bool", "int", "float", "str", "list", "dict"}

\* C7: every value in a returned mapping is a JSON value, the computed
\* metrics that metacognitive_check and thinking_session_summary embed for a
\* tracked thinking session included.
C7_ResultsAreJSON ==
    (/\ op \in {"metacognitive_check", "thinking_session_summary"}
     /\ "metrics" \in DOMAIN ret) =>
        \A k \in DOMAIN ret.metrics : ret.metrics[k].t \in JSONTypes

Has(k) == Contains(k, args.stuck_pattern)

\* C10: analyze_stuck_pattern picks its strategy by testing stuck_pattern for
\* substrings in a fixed priority order: "error" or "loop" gives Problem
\* Solving; otherwise "overwhelm" or "complex" gives Behavioral Activation;
\* otherwise "unclear" or "confus" gives Mindfulness; otherwise "indecis" or
\* "choice" gives Thought Challenging; otherwise Cognitive Reframing.  A
\* pattern containing "error" never gets the default bundle.
C10_StrategyByKeywordPriority ==
    (op = "analyze_stuck_pattern" /\ ret.kind = "dict") =>
        LET first == Has("error") \/ Has("loop")
            second == Has("overwhelm") \/ Has("complex")
            third == Has("unclear") \/ Has("confus")
            fourth == Has("indecis") \/ Has("choice")
            chosen == ret.strategy_applied
        IN  /\ first => chosen = "Problem Solving"
            /\ (~first /\ second) => chosen = "Behavioral Activation"
            /\ (~first /\ ~second /\ third) => chosen = "Mindfulness"
            /\ (~first /\ ~second /\ ~third /\ fourth) => chosen = "Thought Challenging"
            /\ (~first /\ ~second /\ ~third /\ ~fourth) => chosen = "Cognitive Reframing"
            /\ Has("error") => chosen # "Cognitive Reframing"
            /\ \E key \in DOMAIN CBT_STRATEGIES :
                   /\ CBT_STRATEGIES[key].name = chosen
                   /\ CBT_STRATEGIES[key].prompts = ret.guided_questions

\* a pattern that holds a keyword of the first and of the second rank
C10_Witness ==
    /\ op = "analyze_stuck_pattern"
    /\ ret.kind = "dict"
    /\ Has("error")
    /\ Has("overwhelm")
    /\ ret.strategy_applied = "Problem Solving"

\* the list a list-or-string argument stands for: the list itself, nothing
\* when it is omitted, the decoded list when it is a JSON-encoded list
IsListInput(x) ==
    \/ x.t \in {"list", "NoneType"}
    \/ x.t = "str" /\ "kind" \notin DOMAIN json_loads(x.v)
                   /\ json_loads(x.v).t = "list"

ItemsOf(x) ==
    IF x.t = "list" THEN x.v
    ELSE IF x.t = "NoneType" THEN <<>>
    ELSE json_loads(x.v).v

IsSubSeqAt(part, q, i) ==
    /\ i + Len(part) - 1 <= Len(q)
    /\ SubSeq(q, i, i + Len(part) - 1) = part

\* C11: analyze_stuck_pattern includes the "take a step back" suggestions
\* in specific_suggestions exactly when attempted_solutions has three or
\* more items (not with zero, one or two), and the three error-focused
\* suggestions exactly when error_messages is non-empty, the error-focused
\* ones placed before the step-back ones.
C11_SuggestionsByThreshold ==
    (/\ op = "analyze_stuck_pattern"
     /\ IsListInput(args.attempted_solutions)
     /\ IsListInput(args.error_messages)) =>
        LET tried == Len(ItemsOf(args.attempted_solutions)) >= 3
            failed == Len(ItemsOf(args.error_messages)) >= 1
            given == ret.specific_suggestions
        IN  /\ ret.kind = "dict"
            /\ given = (IF failed THEN ErrorSuggestions ELSE <<>>)
                           \o (IF tried THEN StepBackSuggestions ELSE <<>>)
            /\ tried <=> \E i \in 1..Len(given) : given[i] = StepBackSuggestions[1]
            /\ failed <=> \E i \in 1..Len(given) : given[i] = ErrorSuggestions[1]
            /\ (tried /\ failed) =>
                   /\ IsSubSeqAt(ErrorSuggestions, given, 1)
                   /\ IsSubSeqAt(StepBackSuggestions, given, Len(ErrorSuggestions) + 1)

\* three attempts given as a JSON-encoded list together with an error list
C11_Witness ==
    /\ op = "analyze_stuck_pattern"
    /\ args.attempted_solutions.t = "str"
    /\ IsListInput(args.attempted_solutions)
    /\ Len(ItemsOf(args.attempted_solutions)) = 3
    /\ args.error_messages.t = "list"
    /\ Len(ret.specific_suggestions) = 6

\* a string argument that is not a JSON-encoded list
IsNonListString(x) ==
    /\ x.t = "str"
    /\ \/ "kind" \in DOMAIN json_loads(x.v)
       \/ json_loads(x.v).t # "list"

AsIfEmpty(x) == IF IsNonListString(x) THEN PyList(<<>>) ELSE x

\* C12: when a list-or-string parameter (attempted_solutions,
\* error_messages, obstacles) arrives as a string that is not a JSON-encoded
\* list, the operation behaves exactly as if an empty list had been passed:
\* it returns the same result as for the empty list and no error mapping.
C12_NonListStringIsEmptyList ==
    /\ (/\ op = "analyze_stuck_pattern"
        /\ \/ IsNonListString(args.attempted_solutions)
           \/ IsNonListString(args.error_messages)) =>
           /\ ret.kind = "dict"
           /\ ~IsErrorMapping(ret)
           /\ ret = analyze_stuck_pattern(args.current_situation, args.stuck_pattern,
                                          AsIfEmpty(args.attempted_solutions),
                                          AsIfEmpty(args.error_messages))
    /\ (op = "create_action_plan" /\ IsNonListString(args.obstacles)) =>
           /\ ret.kind = "dict"
           /\ ~IsErrorMapping(ret)
           /\ ret = create_action_plan(args.goal, PyList(<<>>), args.time_pressure)

----------------------------------------------------------------------------
(* Properties of the session record *)

\* C13: after any sequence of public tool invocations every session's state
\* is INITIAL or IN_PROGRESS: the only transition a tool performs is the
\* move to IN_PROGRESS by start_session, and IMPROVING, RESOLVED and
\* ESCALATED are never reached.
C13_ToolsReachOnlyInProgress ==
    /\ \A k \in DOMAIN SESSIONS : SESSIONS[k].state \in {"INITIAL", "IN_PROGRESS"}
    /\ \A k \in DOMAIN SESSIONS \cap DOMAIN pre :
           SESSIONS[k].state # pre[k].state =>
               /\ op = "start_session"
               /\ SESSIONS[k].state = "IN_PROGRESS"

\* a started session after a content tool ran on top of it
C13_Witness ==
    /\ op \in ContentTools
    /\ "a" \in DOMAIN SESSIONS
    /\ SESSIONS["a"].state = "IN_PROGRESS"
    /\ SESSIONS["a"].last_update < now

SameButFor(s1, s2, fields) ==
    \A f \in DOMAIN s1 \ fields : s1[f] = s2[f]

OthersUntouched(sid) ==
    /\ DOMAIN SESSIONS = DOMAIN pre
    /\ \A k \in DOMAIN SESSIONS \ {sid} : SESSIONS[k] = pre[k]

\* C14: update_state accepts any of the five states from any current state
\* with no legality check: after update_state(s) the record's state is s,
\* for every pair of current and new state, and no log or primary issue is
\* changed.
C14_UpdateStateUnchecked ==
    op = "update_state" =>
        LET sid == args.session_id
        IN  /\ SESSIONS[sid].state = args.new_state
            /\ SameButFor(SESSIONS[sid], pre[sid], {"state", "last_update"})
            /\ OthersUntouched(sid)

\* a resolved session with a log entry set back to INITIAL
C14_Witness ==
    /\ op = "update_state"
    /\ pre[args.session_id].state = "RESOLVED"
    /\ pre[args.session_id].interventions_tried # <<>>
    /\ pre[args.session_id].primary_issue # ""
    /\ args.new_state = "INITIAL"
    /\ SESSIONS[args.session_id].state = "INITIAL"

Logs == {"interventions_tried", "progress_indicators", "frustration_history"}

\* C15: the intervention and progress logs are append-only: each
\* add_intervention or add_progress call adds exactly one entry at the end of
\* its own log (duplicates allowed, no cap), keeps all earlier entries in
\* order, and leaves the other logs, the state and the primary issue
\* unchanged.  A record is born with empty logs and no other operation
\* changes a log, so after n such calls on a log that started empty its
\* length is n.
C15_LogsAppendOnly ==
    /\ op = "add_intervention" =>
           LET sid == args.session_id
           IN  /\ SESSIONS[sid].interventions_tried
                      = pre[sid].interventions_tried \o <<args.intervention>>
               /\ SameButFor(SESSIONS[sid], pre[sid],
                             {"interventions_tried", "last_update"})
               /\ OthersUntouched(sid)
    /\ op = "add_progress" =>
           LET sid == args.session_id
           IN  /\ SESSIONS[sid].progress_indicators
                      = pre[sid].progress_indicators \o <<args.indicator>>
               /\ SameButFor(SESSIONS[sid], pre[sid],
                             {"progress_indicators", "last_update"})
               /\ OthersUntouched(sid)
    /\ op \notin {"add_intervention", "add_progress"} =>
           \A k \in DOMAIN SESSIONS :
               \A log \in Logs :
                   SESSIONS[k][log] = IF k \in DOMAIN pre THEN pre[k][log] ELSE <<>>

\* the same intervention appended a second time to a started session that
\* has a progress entry
C15_Witness ==
    /\ op = "add_intervention"
    /\ pre[args.session_id].interventions_tried = <<args.intervention>>
    /\ SESSIONS[args.session_id].interventions_tried
           = <<args.intervention, args.intervention>>
    /\ SESSIONS[args.session_id].progress_indicators # <<>>
    /\ SESSIONS[args.session_id].state = "IN_PROGRESS"

\* last_update never decreases on a record and never precedes its start_time
LastUpdateMonotonic ==
    /\ \A k \in DOMAIN SESSIONS :
           SESSIONS[k].start_time <= SESSIONS[k].last_update
    /\ \A k \in DOMAIN SESSIONS \cap DOMAIN pre :
           SESSIONS[k].oid = pre[k].oid =>
               pre[k].last_update <= SESSIONS[k].last_update

TouchedBy(names) ==
    /\ op \in names =>
           SESSIONS[args.session_id].last_update = args.at
    /\ (op = "start_session" /\ ret.status = "session_started") =>
           SESSIONS[strip(args.session_id)].last_update = args.at

C17_OnlySweepRemoves ==
    op # "clean_old_sessions" =>
        /\ DOMAIN pre \subseteq DOMAIN SESSIONS
        /\ \A k \in DOMAIN pre : SESSIONS[k].oid = pre[k].oid

\* a record idle for longer than any threshold swept with, still there
\* after start_session ran on it
C17_Witness ==
    /\ op = "start_session"
    /\ "a" \in DOMAIN pre
    /\ pre["a"].last_update < args.at - 1
    /\ "a" \in DOMAIN SESSIONS
    /\ SESSIONS["a"].oid = pre["a"].oid

----------------------------------------------------------------------------
(* Properties of the tools across calls *)

SameCallAsRemembered ==
    /\ op \in ContentTools
    /\ memo.op = op
    /\ memo.args = args

C19_PrimaryIssueSetOnlyByStart ==
    /\ op # "start_session" =>
           \A k \in DOMAIN SESSIONS :
               SESSIONS[k].primary_issue
                   = IF k \in DOMAIN pre /\ pre[k].oid = SESSIONS[k].oid
                     THEN pre[k].primary_issue
                     ELSE ""
    /\ (op = "start_session" /\ ret.status = "session_started") =>
           SESSIONS[strip(args.session_id)].primary_issue = ret.problem_statement

\* a sweep that kept a started record
C19_Witness ==
    /\ op = "clean_old_sessions"
    /\ "a" \in DOMAIN pre
    /\ "a" \in DOMAIN SESSIONS
    /\ pre["a"].primary_issue = "q"
    /\ pre["a"].state = "IMPROVING"
    /\ pre["a"].interventions_tried # <<>>
    /\ SESSIONS["a"].primary_issue = "q"

----------------------------------------------------------------------------
(* Properties of the registry under concurrent callers *)

Done(c) == callers.pc[c] = "done"

HoldsStored(c) ==
    /\ callers.held[c] # 0
    /\ RaceId \in DOMAIN SESSIONS
    /\ callers.held[c] = SESSIONS[RaceId].oid

\* the interventions of the callers in C that have finished, in any order
IsLogOf(log, C) ==
    /\ Len(log) = Cardinality(C)
    /\ \A c \in C : \E i \in 1..Len(log) : log[i] = RaceInterventions[c]

\* C20: the session registry is unsafe under concurrent invocation: when two
\* callers' operations on the same session interleave at statement
\* granularity, the store of get_session is unconditional, so a caller that
\* found the id absent replaces the record another caller stored in the
\* meantime; a caller that returned before then holds a record that is not
\* the one in the registry, and its append reaches only that record: once
\* both callers are done the stored log holds exactly the interventions of
\* the callers that hold the stored record.
C20_UnsyncedStoreOverwrites ==
    /\ op = "get_session:store" =>
           /\ SESSIONS[RaceId].oid = ret.oid
           /\ RaceId \in DOMAIN pre =>
                  /\ pre[RaceId].oid # ret.oid
                  /\ pre[RaceId].oid \in DOMAIN callers.lost
    /\ \A c \in Callers :
           callers.held[c] # 0 =>
               HoldsStored(c) \/ callers.held[c] \in DOMAIN callers.lost
    /\ (\A c \in Callers : Done(c)) =>
           IsLogOf(SESSIONS[RaceId].interventions_tried,
                   {c \in Callers : HoldsStored(c)})

\* both callers looked the absent id up and appended; one of them holds a
\* record that is not in the registry and its intervention is not in the
\* stored log
C20_Witness ==
    /\ \A c \in Callers : Done(c)
    /\ \E c \in Callers :
           /\ ~HoldsStored(c)
           /\ callers.held[c] \in DOMAIN callers.lost
           /\ callers.lost[callers.held[c]].interventions_tried
                  = <<RaceInterventions[c]>>
           /\ \A i \in 1..Len(SESSIONS[RaceId].interventions_tried) :
                  SESSIONS[RaceId].interventions_tried[i] # RaceInterventions[c]
    /\ Len(SESSIONS[RaceId].interventions_tried) = 1

----------------------------------------------------------------------------
(* Properties of the registry keys *)

IsTrimmed(k) == k # "" /\ strip(k) = k

\* C21: start_session keys the registry by the trimmed session id: two
\* start_session calls whose ids differ only in leading or trailing
\* whitespace operate on the same single record, the returned session_id is
\* the trimmed id, and no registry key ever has leading or trailing
\* whitespace or is empty.
C21_RegistryKeyedByTrimmedId ==
    /\ \A k \in DOMAIN SESSIONS : IsTrimmed(k)
    /\ (op = "start_session" /\ ret.status = "session_started") =>
           LET sid == strip(args.session_id)
           IN  /\ ret.session_id = sid
               /\ sid \in DOMAIN SESSIONS
               /\ DOMAIN SESSIONS = DOMAIN pre \cup {sid}
               /\ sid \in DOMAIN pre => SESSIONS[sid].oid = pre[sid].oid

\* a start under " a" or "a " on the record an earlier start stored as "a"
C21_Witness ==
    /\ op = "start_session"
    /\ ret.status = "session_started"
    /\ args.session_id # strip(args.session_id)
    /\ strip(args.session_id) \in DOMAIN pre
    /\ pre[strip(args.session_id)].state = "IN_PROGRESS"
    /\ DOMAIN SESSIONS = DOMAIN pre
    /\ SESSIONS[strip(args.session_id)].oid = pre[strip(args.session_id)].oid

----------------------------------------------------------------------------
(* Frame of the content tools *)

----------------------------------------------------------------------------
(* Priority of the wellness assessment *)

\* the minutes a caller reported: nothing or "" is 0, a number is itself,
\* a numeral is the number it writes
C23_Minutes ==
    LET m == args.time_on_task
    IN  CASE m.t = "NoneType" -> 0
          [] m.t = "int"      -> m.v
          [] m = PyStr("")    -> 0
          [] m = PyStr("45")  -> 45
          [] m = PyStr(" 90 ") -> 90
          [] OTHER            -> 0 - 1

\* whether the caller reported progress
C23_Progress ==
    args.progress_made \in {PyBool(TRUE), PyStr("true"), PyStr("True")}

\* C23: wellness_check classifies by a fixed priority: more than 30 minutes
\* with no progress is High with suggested_intervention
\* "analyze_stuck_pattern"; otherwise more than 60 minutes is Medium-High;
\* otherwise progress made is Manageable; otherwise Low-Medium.  The
\* suggested intervention is non-null only in the first case, and a missing
\* or empty time_on_task counts as 0 minutes.
C23_WellnessPriority ==
    (op = "wellness_check" /\ ret.kind = "dict") =>
        /\ C23_Minutes >= 0
        /\ ret.cognitive_load =
              (IF C23_Minutes > 30 /\ ~C23_Progress THEN "High"
               ELSE IF C23_Minutes > 60 THEN "Medium-High"
               ELSE IF C23_Progress THEN "Manageable"
               ELSE "Low-Medium")
        /\ ret.cognitive_load = "High" =>
               ret.suggested_intervention = PyStr("analyze_stuck_pattern")
        /\ ret.cognitive_load # "High" => ret.suggested_intervention = PyNone
        /\ args.time_on_task \in {PyNone, PyStr("")} =>
               ret.cognitive_load \in {"Manageable", "Low-Medium"}

\* more than an hour without progress: the first case wins over the second
C23_Witness ==
    /\ op = "wellness_check"
    /\ ret.kind = "dict"
    /\ args.time_on_task = PyInt(90)
    /\ args.progress_made = PyBool(FALSE)
    /\ ret.cognitive_load = "High"
    /\ ret.suggested_intervention = PyStr("analyze_stuck_pattern")

----------------------------------------------------------------------------
(* The thinking-session registry *)

DepthNames == {"surface", "shallow", "moderate", "deep", "profound"}

\* C24: initiate_deep_thinking with a desired_depth that is not one of
\* surface, shallow, moderate, deep, profound (in any letter case) returns
\* the error mapping with status "failed" and leaves the thinking-session
\* registry as it was: nothing is stored under the given id and a session
\* already stored under that id is not replaced.
C24_InvalidDepthLeavesRegistry ==
    (op = "initiate_deep_thinking" /\ lower(args.desired_depth) \notin DepthNames) =>
        /\ ret.kind = "dict"
        /\ "error" \in DOMAIN ret
        /\ ret.status = "failed"
        /\ THINKING_SESSIONS = pre

\* an unknown depth asked for under the id of a stored session
C24_Witness ==
    /\ op = "initiate_deep_thinking"
    /\ args.desired_depth = "bottomless"
    /\ args.session_id = PyStr("t1")
    /\ args.topic = "caching"
    /\ "t1" \in DOMAIN pre
    /\ pre["t1"].initial_prompt = "free will"
    /\ ret.status = "failed"
    /\ THINKING_SESSIONS = pre

\* C25: initiate_deep_thinking is last-write-wins per session id: a
\* successful call with an id that already names a thinking session replaces
\* it with a fresh session (thought_count 0, max_depth_reached 0, empty
\* question and perspective lists), and the thinking sessions under other
\* ids are unchanged.
C25_LastWriteWins ==
    (op = "initiate_deep_thinking" /\ "error" \notin DOMAIN ret) =>
        LET sid == ret.session_id
        IN  /\ sid \in DOMAIN THINKING_SESSIONS
            /\ THINKING_SESSIONS[sid].session_id = sid
            /\ THINKING_SESSIONS[sid].initial_prompt = args.topic
            /\ THINKING_SESSIONS[sid].thought_count = 0
            /\ THINKING_SESSIONS[sid].max_depth_reached = 0
            /\ THINKING_SESSIONS[sid].questions_explored = <<>>
            /\ THINKING_SESSIONS[sid].perspectives_considered = <<>>
            /\ DOMAIN THINKING_SESSIONS = DOMAIN pre \cup {sid}
            /\ \A k \in DOMAIN pre : k # sid => THINKING_SESSIONS[k] = pre[k]

\* a session that had gathered questions is started again next to another
\* session that has gathered some too
C25_Witness ==
    /\ op = "initiate_deep_thinking"
    /\ "error" \notin DOMAIN ret
    /\ args.session_id = PyStr("t1")
    /\ "t1" \in DOMAIN pre
    /\ pre["t1"].thought_count > 0
    /\ pre["t1"].max_depth_reached > 0
    /\ pre["t1"].perspectives_considered # <<>>
    /\ "think_0" \in DOMAIN pre
    /\ pre["think_0"].questions_explored # <<>>
    /\ THINKING_SESSIONS["t1"].thought_count = 0
    /\ THINKING_SESSIONS["think_0"] = pre["think_0"]

OtherThinkingTools ==
    { "socratic_dialogue", "generate_thought_experiment", "thinking_depth_ladder",
      "recursive_questioning", "expand_thought", "metacognitive_check" }

\* C26: the deep-thinking tools other than initiate_deep_thinking never
\* create a thinking session: called with no session_id or with an id that
\* is not in the registry they leave the registry unchanged, and
\* thinking_session_summary on an unknown id returns the error mapping
\* saying that the session was not found.
C26_OnlyInitiateCreates ==
    /\ op \in OtherThinkingTools =>
           /\ DOMAIN THINKING_SESSIONS = DOMAIN pre
           /\ ~Tracked(pre, args.session_id) => THINKING_SESSIONS = pre
    /\ op = "thinking_session_summary" =>
           /\ THINKING_SESSIONS = pre
           /\ args.session_id \notin DOMAIN pre =>
                  ret = [ kind |-> "dict",
                          error |-> "Thinking session " \o args.session_id \o " not found",
                          status |-> "failed" ]

\* a questioning tool called with an id the registry does not hold, while
\* it holds another session
C26_Witness ==
    /\ op = "recursive_questioning"
    /\ args.session_id = PyStr("nope")
    /\ "error" \notin DOMAIN ret
    /\ pre # <<>>
    /\ "t1" \in DOMAIN pre
    /\ "nope" \notin DOMAIN THINKING_SESSIONS
    /\ THINKING_SESSIONS = pre

----------------------------------------------------------------------------
(* Sizes of the questioning structures *)

\* the thought_count of the tracked session in registry T, 0 when there is none
ThoughtsOf(T) ==
    IF Tracked(T, args.session_id) THEN T[args.session_id.v].thought_count ELSE 0

\* C27: socratic_dialogue with a known dialogue_type returns depth_level
\* rounds of questioning: the number of rounds is min(depth_level, 7), never
\* more than depth_level, the rounds are numbered 1..k in chain order, only
\* the last round carries the closing follow-up, and a tracked session's
\* thought_count grows by exactly the number of rounds returned.
C27_RoundsByDepthLevel ==
    (/\ op = "socratic_dialogue"
     /\ args.dialogue_type \in DOMAIN SOCRATIC_CHAINS) =>
        LET rounds == ret.dialogue.rounds
            k == Len(rounds)
        IN  /\ k = Min(args.depth_level, 7)
            /\ k <= args.depth_level
            /\ \A i \in 1..k :
                   /\ rounds[i].round = i
                   /\ rounds[i].question = SOCRATIC_CHAINS[args.dialogue_type][i]
                   /\ (rounds[i].follow_up = "What core truth or uncertainty remains?")
                          <=> (i = k)
            /\ Tracked(pre, args.session_id) =>
                   ThoughtsOf(THINKING_SESSIONS) = ThoughtsOf(pre) + k

\* C28: recursive_questioning caps the recursion at 5: the returned
\* structure has min(recursion_depth, 5) branches with levels 1..k, its depth
\* field equals the number of branches, and a tracked session's
\* thought_count grows by exactly the number of branches returned.
C28_RecursionCappedAtFive ==
    op = "recursive_questioning" =>
        LET branches == ret.branches
            k == Len(branches)
        IN  /\ k = Min(args.recursion_depth, 5)
            /\ \A i \in 1..k : branches[i].level = i
            /\ ret.depth = k
            /\ Tracked(pre, args.session_id) =>
                   ThoughtsOf(THINKING_SESSIONS) = ThoughtsOf(pre) + k

\* C29: thinking_depth_ladder returns a ladder whose total_rungs equals the
\* number of rungs, at most 7, with levels numbered 1..k consecutively, in
\* which every rung except the last announces a transition to the next
\* level and the last rung has an empty transition, so no transition names
\* a level that is not in the ladder.
C29_LadderTransitionsStayInside ==
    op = "thinking_depth_ladder" =>
        LET rungs == ret.rungs
            k == Len(rungs)
        IN  /\ ret.total_rungs = k
            /\ k <= 7
            /\ \A i \in 1..k :
                   /\ rungs[i].level = i
                   /\ i < k => rungs[i].transition = Transition(i + 1)
                   /\ i = k => rungs[i].transition = ""

====
